---- MODULE Spec2Model ----
(***************************************************************************)
(* State-machine model of the SQLite sync gateway                          *)
(* (runtime/server/sync/sqlite-sync-gateway-adapter.ts) and of the         *)
(* identity store (runtime/server/auth/sqlite-auth-workspace-store.ts),    *)
(* with the admin workspace store, the Kysely singleton                    *)
(* (runtime/server/db/kysely.ts) and the invites of auth_invites.          *)
(*                                                                         *)
(* Tables are sets of rows.  The random uuid primary keys of change_log,   *)
(* tombstones and device_cursors are never read by the code and are left   *)
(* out of the rows; every other column is kept.  An operation that runs    *)
(* inside one better-sqlite3 transaction (or is one statement) is one      *)
(* action.  nowEpoch() reads the variable now, which only moves forward.   *)
(***************************************************************************)
EXTENDS Integers, Sequences, FiniteSets, TLC

VARIABLES
    counter,        \* server_version_counter : set of [workspace_id, value]
    changeLog,      \* change_log rows
    materialized,   \* rows of the s_* tables, tagged with their table
    tombstones,     \* tombstones rows
    cursors,        \* device_cursors rows
    now,            \* wall clock in seconds (nowEpoch)
    resp,           \* what the most recent gateway call returned
    committed,      \* history: every change_log row ever inserted
    cursorCalls,    \* history: every version passed to updateCursor
    gcMissed,       \* history: <<workspace, device>> without a cursor row
                    \* during a gcChangeLog run that deleted rows
    users,          \* users rows
    authAccounts,   \* auth_accounts rows
    uidCounter,     \* number of ids handed out by uid()
    authCalls,      \* getOrCreateUser callers: input, position, result
    workspaces,     \* workspaces rows
    workspaceMembers, \* workspace_members rows
    wsResp,         \* what the most recent workspace-store call returned
    memberCalls,    \* upsertMember calls in flight: input, position, user id
    wsCalls,        \* workspace-store calls in flight: input, position, result
    db,             \* the Kysely singleton and what the last getSqliteDb did
    invites,        \* auth_invites rows
    inviteResp      \* what the most recent invite call returned

syncVars == <<counter, changeLog, materialized, tombstones, cursors, now, resp,
              committed, cursorCalls, gcMissed>>
authVars == <<users, authAccounts, uidCounter, authCalls>>
wsVars == <<workspaces, workspaceMembers, wsResp, memberCalls, wsCalls>>
extVars == <<db, invites, inviteResp>>
vars == <<counter, changeLog, materialized, tombstones, cursors, now, resp,
          committed, cursorCalls, gcMissed, users, authAccounts, uidCounter,
          authCalls, workspaces, workspaceMembers, wsResp, memberCalls, wsCalls,
          db,
          invites, inviteResp>>

----------------------------------------------------------------------------
(* Bounds of the model *)

MaxNow == 1
MaxCounter == 3
MaxCursorVersion == 2
MaxLimit == 2
Retentions == {0, 1}

Workspaces == {"wsA", "wsB"}
Devices == {"dA", "dB"}
OpIds == {"o1", "o2", "o3"}
\* An hlc is a string; it is modelled as the sequence of its character
\* codes so that the comparison is the lexicographic one of the code.
\* A payload is absent or an object, written as its list of <<key, value>>
\* pairs.
NoPayload == [present |-> FALSE, obj |-> <<>>]
\* A JSON text is the list of its tokens; the SQL NULL text is the empty list.
NullJson == <<>>

\* Identity store inputs
MaxUid == 6
MaxWorkspaces == 2
\* Invites created in a run.
MaxInvites == 2
MaxUsers == 2
Roles == {"owner", "editor"}
\* The SQL NULL of an integer column.
SqlNullInt == -1
Callers == {"c1", "c2", "c3"}
Providers == {"clerk", "github"}
ProviderUserIds == {"u1", "u2"}
SqlNull == "NULL"
Emails == {SqlNull, "a@x.io"}

----------------------------------------------------------------------------
(* schema.ts *)

SYNCED_TABLE_MAP ==
    [threads |-> "s_threads", messages |-> "s_messages",
     projects |-> "s_projects", posts |-> "s_posts", kv |-> "s_kv",
     file_meta |-> "s_file_meta", notifications |-> "s_notifications"]

\* Mutant: any table name is allowed.
ALLOWED_SYNC_TABLES_ANY == DOMAIN SYNCED_TABLE_MAP \cup {"bogus"}

ALLOWED_SYNC_TABLES == DOMAIN SYNCED_TABLE_MAP

----------------------------------------------------------------------------
(* Pure helpers of the gateway *)

Max(S) == CHOOSE x \in S : \A y \in S : y <= x
Min(S) == CHOOSE x \in S : \A y \in S : x <= y

RECURSIVE StrGreater(_, _)
\* a > b on strings: lexicographic on character codes, a proper prefix is
\* smaller.
StrGreater(a, b) ==
    IF a = <<>> THEN FALSE
    ELSE IF b = <<>> THEN TRUE
    ELSE IF Head(a) # Head(b) THEN Head(a) > Head(b)
    ELSE StrGreater(Tail(a), Tail(b))

\* Mutant: an op with the stamp of the row wins as well.
incomingWinsLwwOrEqual(inClock, inHlc, existingClock, existingHlc) ==
    \/ inClock > existingClock
    \/ inClock = existingClock /\ ~StrGreater(existingHlc, inHlc)

\* Mutant: no hlc tie-break.
incomingWinsLwwClockOnly(inClock, inHlc, existingClock, existingHlc) ==
    inClock > existingClock

incomingWinsLww(inClock, inHlc, existingClock, existingHlc) ==
    IF inClock > existingClock THEN TRUE
    ELSE IF inClock = existingClock /\ StrGreater(inHlc, existingHlc) THEN TRUE
    ELSE FALSE

RECURSIVE JsonMembers(_)
JsonMembers(obj) ==
    IF obj = <<>> THEN <<>>
    ELSE <<Head(obj)[1], ":", Head(obj)[2]>>
         \o (IF Tail(obj) = <<>> THEN <<>> ELSE <<",">>)
         \o JsonMembers(Tail(obj))

\* JSON.stringify of an object: the text as its list of tokens.
JsonStringify(obj) == <<"{">> \o JsonMembers(obj) \o <<"}">>

RECURSIVE JsonParseMembers(_)
JsonParseMembers(toks) ==
    IF Len(toks) < 3 THEN <<>>
    ELSE <<<<toks[1], toks[3]>>>>
         \o JsonParseMembers(IF Len(toks) > 4 THEN SubSeq(toks, 5, Len(toks))
                             ELSE <<>>)

\* JSON.parse of a text produced by JsonStringify.
JsonParse(text) == JsonParseMembers(SubSeq(text, 2, Len(text) - 1))

\* payloadJson = op.payload != null ? JSON.stringify(op.payload) : null
PayloadJson(op) ==
    IF op.payload.present THEN JsonStringify(op.payload.obj) ELSE NullJson

\* payloadJson ?? '{}'
DataJson(payloadJson) ==
    IF payloadJson = NullJson THEN <<"{", "}">> ELSE payloadJson

CounterRow(cnt, workspaceId) == {r \in cnt : r.workspace_id = workspaceId}

\* Mutant: the counter is read without its WHERE workspace_id = ?.
CounterValueAnyWorkspace(cnt, workspaceId) ==
    IF cnt = {} THEN 0 ELSE (CHOOSE r \in cnt : TRUE).value

\* The counter of a workspace, 0 when it has no row.
CounterValue(cnt, workspaceId) ==
    IF CounterRow(cnt, workspaceId) = {} THEN 0
    ELSE (CHOOSE r \in CounterRow(cnt, workspaceId) : TRUE).value

chunkSize == 500

RECURSIVE ProbeChunksShort(_, _, _)
\* Mutant: the chunk slice stops one op_id early.
ProbeChunksShort(log, opIds, i) ==
    IF i > Len(opIds) THEN {}
    ELSE LET last == IF i + chunkSize - 1 < Len(opIds) THEN i + chunkSize - 1
                     ELSE Len(opIds)
             chunk == {opIds[j] : j \in i..(last - 1)}
         IN {r \in log : r.op_id \in chunk}
            \cup ProbeChunksShort(log, opIds, i + chunkSize)

RECURSIVE ProbeChunks(_, _, _)
\* The idempotency probe: SELECT op_id, server_version FROM change_log
\* WHERE op_id IN (chunk), chunk by chunk.
ProbeChunks(log, opIds, i) ==
    IF i > Len(opIds) THEN {}
    ELSE LET last == IF i + chunkSize - 1 < Len(opIds) THEN i + chunkSize - 1
                     ELSE Len(opIds)
             chunk == {opIds[j] : j \in i..last}
         IN {r \in log : r.op_id \in chunk} \cup ProbeChunks(log, opIds, i + chunkSize)

\* existingOps : op_id -> server_version of its change_log row
ExistingOps(log, ops) ==
    LET rows == ProbeChunks(log, [i \in 1..Len(ops) |-> ops[i].opId], 1)
    IN [id \in {r.op_id : r \in rows} |->
           (CHOOSE r \in rows : r.op_id = id).server_version]

\* Mutant: every op_id of the batch counts as new.
UniqueNewOpIdsOfBatch(existingOps, ops) ==
    {ops[i].opId : i \in 1..Len(ops)}

UniqueNewOpIds(existingOps, ops) ==
    {ops[i].opId : i \in 1..Len(ops)} \ DOMAIN existingOps

\* Mutant: the block is sized by the batch length, not by the distinct new
\* op_ids.
NextCounterValueBatchLength(baseVersion, existingOps, ops) ==
    baseVersion + Len(ops)

\* Mutant: the block is sized by the distinct op_ids of the batch, replays
\* included.
NextCounterValueCountsReplays(baseVersion, existingOps, ops) ==
    baseVersion + Cardinality({ops[i].opId : i \in 1..Len(ops)})

\* Mutant: the counter row keeps the base version.
NextCounterValueKeepsBase(baseVersion, existingOps, ops) ==
    baseVersion

\* The value written to server_version_counter.
NextCounterValue(baseVersion, existingOps, ops) ==
    baseVersion + Cardinality(UniqueNewOpIds(existingOps, ops))

\* Mutant: the block starts one version too high.
AssignVersionsOffByOne(existingOps, ops, baseVersion, i, versionOffset, assigned) ==
    LET fresh == {k \in 1..Len(ops) : ops[k].opId \notin DOMAIN existingOps}
    IN [id \in {ops[k].opId : k \in fresh} |->
           baseVersion + 1 + Cardinality({ops[j].opId : j \in
                 {k \in fresh : k <= Min({x \in fresh : ops[x].opId = id})}})]

\* Mutant: every occurrence of a new op_id takes the next version, and the
\* op_id keeps the one of its last occurrence.
AssignVersionsPerOccurrence(existingOps, ops, baseVersion, i, versionOffset, assigned) ==
    LET fresh == {k \in 1..Len(ops) : ops[k].opId \notin DOMAIN existingOps}
    IN [id \in {ops[k].opId : k \in fresh} |->
           baseVersion + Cardinality({k \in fresh :
                            k <= Max({j \in fresh : ops[j].opId = id})})]

RECURSIVE AssignVersions(_, _, _, _, _, _)
\* assignedVersions : op_id -> baseVersion + offset, in first-occurrence order
AssignVersions(existingOps, ops, baseVersion, i, versionOffset, assigned) ==
    IF i > Len(ops) THEN assigned
    ELSE IF ops[i].opId \in DOMAIN existingOps
         THEN AssignVersions(existingOps, ops, baseVersion, i + 1, versionOffset, assigned)
    ELSE IF ops[i].opId \in DOMAIN assigned
         THEN AssignVersions(existingOps, ops, baseVersion, i + 1, versionOffset, assigned)
    ELSE AssignVersions(existingOps, ops, baseVersion, i + 1, versionOffset + 1,
                        (ops[i].opId :> (baseVersion + versionOffset + 1)) @@ assigned)

\* Mutant: the row is looked up by id alone.
SelectExistingAnyWorkspace(mat, table, pkValue, workspaceId) ==
    {r \in mat : r.table = table /\ r.id = pkValue}

\* SELECT clock, hlc FROM <table> WHERE id = ? AND workspace_id = ?
SelectExisting(mat, table, pkValue, workspaceId) ==
    {r \in mat : r.table = table /\ r.id = pkValue /\ r.workspace_id = workspaceId}

\* INSERT INTO <table> (...) VALUES (..., deleted, now, now); the primary
\* key (workspace_id, id) rejects a second row for the same key.
InsertMaterialized(mat, table, pkValue, workspaceId, dataJson, op, deleted, nowv) ==
    IF \E r \in mat : r.table = table /\ r.workspace_id = workspaceId /\ r.id = pkValue
    THEN [threw |-> TRUE, mat |-> mat]
    ELSE [threw |-> FALSE,
          mat |-> mat \cup {[table |-> table, id |-> pkValue,
                             workspace_id |-> workspaceId, data_json |-> dataJson,
                             clock |-> op.clock, hlc |-> op.hlc,
                             device_id |-> op.deviceId, deleted |-> deleted,
                             created_at |-> nowv, updated_at |-> nowv]}]

\* The put branch of the LWW apply.
ApplyPut(mat, table, op, workspaceId, payloadJson, nowv) ==
    LET existing == SelectExisting(mat, table, op.pk, workspaceId)
    IN IF existing = {}
       THEN InsertMaterialized(mat, table, op.pk, workspaceId,
                               DataJson(payloadJson), op, 0, nowv)
       ELSE LET e == CHOOSE r \in existing : TRUE
            IN IF incomingWinsLww(op.clock, op.hlc, e.clock, e.hlc)
               THEN [threw |-> FALSE,
                     mat |-> {IF r.table = table /\ r.id = op.pk
                                 /\ r.workspace_id = workspaceId
                              THEN [r EXCEPT !.data_json = DataJson(payloadJson),
                                             !.clock = op.clock, !.hlc = op.hlc,
                                             !.device_id = op.deviceId,
                                             !.deleted = 0, !.updated_at = nowv]
                              ELSE r : r \in mat}]
               ELSE [threw |-> FALSE, mat |-> mat]

\* Mutant: the winning delete leaves the row's device_id.
ApplyDeleteKeepsDevice(mat, table, op, workspaceId, nowv) ==
    LET existing == SelectExisting(mat, table, op.pk, workspaceId)
    IN IF existing = {}
       THEN InsertMaterialized(mat, table, op.pk, workspaceId,
                               <<"{", "}">>, op, 1, nowv)
       ELSE LET e == CHOOSE r \in existing : TRUE
            IN IF incomingWinsLww(op.clock, op.hlc, e.clock, e.hlc)
               THEN [threw |-> FALSE,
                     mat |-> {IF r.table = table /\ r.id = op.pk
                                 /\ r.workspace_id = workspaceId
                              THEN [r EXCEPT !.deleted = 1,
                                             !.clock = op.clock, !.hlc = op.hlc,
                                             !.updated_at = nowv]
                              ELSE r : r \in mat}]
               ELSE [threw |-> FALSE, mat |-> mat]

\* The delete branch of the LWW apply.
ApplyDelete(mat, table, op, workspaceId, nowv) ==
    LET existing == SelectExisting(mat, table, op.pk, workspaceId)
    IN IF existing = {}
       THEN InsertMaterialized(mat, table, op.pk, workspaceId,
                               <<"{", "}">>, op, 1, nowv)
       ELSE LET e == CHOOSE r \in existing : TRUE
            IN IF incomingWinsLww(op.clock, op.hlc, e.clock, e.hlc)
               THEN [threw |-> FALSE,
                     mat |-> {IF r.table = table /\ r.id = op.pk
                                 /\ r.workspace_id = workspaceId
                              THEN [r EXCEPT !.deleted = 1,
                                             !.clock = op.clock, !.hlc = op.hlc,
                                             !.device_id = op.deviceId,
                                             !.updated_at = nowv]
                              ELSE r : r \in mat}]
               ELSE [threw |-> FALSE, mat |-> mat]

\* Mutant: the upsert replaces the tombstone whatever its stamp.
TombstoneWinsAlways(exClock, exServerVersion, tClock, tServerVersion) ==
    TRUE

\* The WHERE clause of the tombstone upsert's DO UPDATE.
\* Mutant: the tombstone is replaced only by a greater clock.
TombstoneWinsClockOnly(exClock, exServerVersion, tClock, tServerVersion) ==
    exClock > tClock

TombstoneWins(exClock, exServerVersion, tClock, tServerVersion) ==
    \/ exClock > tClock
    \/ (exClock = tClock /\ exServerVersion > tServerVersion)

\* Mutant: the conflict target never matches, every delete inserts a row.
UpsertTombstoneNoConflict(tomb, workspaceId, op, serverVersion, nowv) ==
    tomb \cup {[workspace_id |-> workspaceId, table_name |-> op.tableName,
                pk |-> op.pk, deleted_at |-> nowv, clock |-> op.clock,
                server_version |-> serverVersion, created_at |-> nowv]}

\* INSERT INTO tombstones ... ON CONFLICT(workspace_id, table_name, pk) DO UPDATE
UpsertTombstone(tomb, workspaceId, op, serverVersion, nowv) ==
    LET conflict == {t \in tomb : t.workspace_id = workspaceId
                                  /\ t.table_name = op.tableName /\ t.pk = op.pk}
    IN IF conflict = {}
       THEN tomb \cup {[workspace_id |-> workspaceId, table_name |-> op.tableName,
                        pk |-> op.pk, deleted_at |-> nowv, clock |-> op.clock,
                        server_version |-> serverVersion, created_at |-> nowv]}
       ELSE {IF t \in conflict
                /\ TombstoneWins(op.clock, serverVersion, t.clock, t.server_version)
             THEN [t EXCEPT !.deleted_at = nowv, !.clock = op.clock,
                            !.server_version = serverVersion]
             ELSE t : t \in tomb}

\* insertChangeLog.run(...); the NOT NULL of pk rejects a null pk and the
\* unique index on op_id a second row.
InsertChangeLog(log, workspaceId, serverVersion, op, payloadJson, nowv) ==
    IF op.pk = SqlNull \/ \E r \in log : r.op_id = op.opId
    THEN [threw |-> TRUE, log |-> log]
    ELSE [threw |-> FALSE,
          log |-> log \cup {[workspace_id |-> workspaceId,
                             server_version |-> serverVersion,
                             table_name |-> op.tableName, pk |-> op.pk,
                             op |-> op.operation, payload_json |-> payloadJson,
                             clock |-> op.clock, hlc |-> op.hlc,
                             device_id |-> op.deviceId, op_id |-> op.opId,
                             created_at |-> nowv]}]

\* One new op: change_log insert, LWW apply, tombstone upsert, result.
ProcessNewOp(st, workspaceId, op, serverVersion, nowv) ==
    LET payloadJson == PayloadJson(op)
        ins == InsertChangeLog(st.log, workspaceId, serverVersion, op, payloadJson, nowv)
        table == SYNCED_TABLE_MAP[op.tableName]
        app == IF op.operation = "put"
               THEN ApplyPut(st.mat, table, op, workspaceId, payloadJson, nowv)
               ELSE IF op.operation = "delete"
               THEN ApplyDelete(st.mat, table, op, workspaceId, nowv)
               ELSE [threw |-> FALSE, mat |-> st.mat]
    IN IF ins.threw \/ app.threw
       THEN [st EXCEPT !.threw = TRUE]
       ELSE [st EXCEPT
               !.log = ins.log,
               !.mat = app.mat,
               !.tomb = IF op.operation = "delete"
                        THEN UpsertTombstone(st.tomb, workspaceId, op, serverVersion, nowv)
                        ELSE st.tomb,
               !.processedNew = st.processedNew \cup {op.opId},
               !.results = Append(st.results,
                                  [opId |-> op.opId, success |-> TRUE,
                                   serverVersion |-> serverVersion])]

RECURSIVE ProcessOps(_, _, _, _, _, _, _)
\* The loop over the ops of the batch, in submission order.
ProcessOps(st, workspaceId, ops, existingOps, assignedVersions, nowv, i) ==
    IF i > Len(ops) \/ st.threw THEN st
    ELSE LET op == ops[i]
             opId == op.opId
             next ==
               IF opId \in DOMAIN existingOps
               THEN [st EXCEPT !.results =
                        Append(st.results, [opId |-> opId, success |-> TRUE,
                                            serverVersion |-> existingOps[opId]])]
               ELSE IF opId \notin DOMAIN assignedVersions
               THEN [st EXCEPT !.threw = TRUE]
               ELSE IF opId \in st.processedNew
               THEN [st EXCEPT !.results =
                        Append(st.results, [opId |-> opId, success |-> TRUE,
                                            serverVersion |-> assignedVersions[opId]])]
               ELSE IF op.tableName \notin DOMAIN SYNCED_TABLE_MAP
               THEN [st EXCEPT !.processedNew = st.processedNew \cup {opId},
                               !.results =
                        Append(st.results, [opId |-> opId, success |-> FALSE,
                                            errorCode |-> "VALIDATION_ERROR"])]
               ELSE ProcessNewOp(st, workspaceId, op, assignedVersions[opId], nowv)
         IN ProcessOps(next, workspaceId, ops, existingOps, assignedVersions, nowv, i + 1)

\* The body of runTx: probe, allocation, loop.  The result carries the
\* tables as the transaction leaves them and whether a statement threw.
RunTx(cnt, log, mat, tomb, workspaceId, ops, nowv) ==
    LET existingOps == ExistingOps(log, ops)
        baseVersion == CounterValue(cnt, workspaceId)
        newValue == NextCounterValue(baseVersion, existingOps, ops)
        assignedVersions == AssignVersions(existingOps, ops, baseVersion, 1, 0, <<>>)
        st == ProcessOps([log |-> log, mat |-> mat, tomb |-> tomb, results |-> <<>>,
                          processedNew |-> {}, threw |-> FALSE],
                         workspaceId, ops, existingOps, assignedVersions, nowv, 1)
    IN [threw |-> st.threw,
        cnt |-> (cnt \ CounterRow(cnt, workspaceId))
                \cup {[workspace_id |-> workspaceId, value |-> newValue]},
        log |-> st.log, mat |-> st.mat, tomb |-> st.tomb,
        results |-> st.results, finalServerVersion |-> newValue]

\* Mutant: no transaction around the statements; what ran before the
\* failing statement stays.
TransactionAutocommit(before, tx) == tx

\* raw.transaction(fn) and runTx.immediate(): BEGIN IMMEDIATE, fn, then
\* COMMIT when fn returns and ROLLBACK when it throws; the error is rethrown.
Transaction(before, tx) ==
    IF tx.threw
    THEN [tx EXCEPT !.cnt = before.cnt, !.log = before.log,
                    !.mat = before.mat, !.tomb = before.tomb]
    ELSE tx

----------------------------------------------------------------------------
(* Gateway operations *)

\* push(input): an empty batch and a batch naming a table outside the
\* allowlist return before any statement; otherwise runTx.immediate() either
\* commits everything or, when a statement throws, rolls everything back.
\* maxVersion caps the counter (a bound of the model, not of the code).
PushUpTo(workspaceId, ops, maxVersion) ==
    /\ UNCHANGED <<cursors, now, cursorCalls, gcMissed>>
    /\ IF Len(ops) = 0
       THEN /\ resp' = [kind |-> "push", workspace |-> workspaceId, threw |-> FALSE,
                        results |-> <<>>, serverVersion |-> 0]
            /\ UNCHANGED <<counter, changeLog, materialized, tombstones, committed>>
       ELSE IF \E i \in 1..Len(ops) : ops[i].tableName \notin ALLOWED_SYNC_TABLES
       THEN /\ resp' = [kind |-> "push", workspace |-> workspaceId, threw |-> FALSE,
                        results |-> [i \in 1..Len(ops) |->
                                       [opId |-> ops[i].opId, success |-> FALSE,
                                        errorCode |-> "VALIDATION_ERROR"]],
                        serverVersion |-> 0]
            /\ UNCHANGED <<counter, changeLog, materialized, tombstones, committed>>
       ELSE LET before == [cnt |-> counter, log |-> changeLog,
                           mat |-> materialized, tomb |-> tombstones]
                tx == Transaction(before,
                                  RunTx(counter, changeLog, materialized, tombstones,
                                        workspaceId, ops, now))
            IN /\ tx.finalServerVersion <= maxVersion
               /\ resp' = IF tx.threw
                          THEN [kind |-> "push", workspace |-> workspaceId,
                                threw |-> TRUE, results |-> <<>>,
                                serverVersion |-> 0]
                          ELSE [kind |-> "push", workspace |-> workspaceId,
                                threw |-> FALSE, results |-> tx.results,
                                serverVersion |-> tx.finalServerVersion]
               /\ counter' = tx.cnt
               /\ changeLog' = tx.log
               /\ materialized' = tx.mat
               /\ tombstones' = tx.tomb
               /\ committed' = committed \cup (tx.log \ changeLog)

Push(workspaceId, ops) == PushUpTo(workspaceId, ops, MaxCounter)

fetchCap == 1000

RECURSIVE OrderByServerVersionDesc(_)
\* Mutant: ORDER BY server_version DESC.
OrderByServerVersionDesc(rows) ==
    IF rows = {} THEN <<>>
    ELSE LET first == CHOOSE r \in rows :
                          \A q \in rows : r.server_version >= q.server_version
         IN <<first>> \o OrderByServerVersionDesc(rows \ {first})

RECURSIVE OrderByServerVersion(_)
\* ORDER BY server_version ASC
OrderByServerVersion(rows) ==
    IF rows = {} THEN <<>>
    ELSE LET first == CHOOSE r \in rows :
                          \A q \in rows : r.server_version <= q.server_version
         IN <<first>> \o OrderByServerVersion(rows \ {first})

\* Mutant: LIMIT keeps one row less.
LimitOneLess(rowSeq, n) ==
    SubSeq(rowSeq, 1, IF n - 1 < Len(rowSeq) THEN n - 1 ELSE Len(rowSeq))

\* LIMIT n
Limit(rowSeq, n) == SubSeq(rowSeq, 1, IF n < Len(rowSeq) THEN n ELSE Len(rowSeq))

\* Mutant: server_version >= cursor.
PullMatchesInclusive(row, workspaceId, cursor, tables) ==
    /\ row.workspace_id = workspaceId
    /\ row.server_version >= cursor
    /\ (tables # {} => row.table_name \in tables)

\* The WHERE clause of pull's query; an empty or missing table list does
\* not filter.
PullMatches(row, workspaceId, cursor, tables) ==
    /\ row.workspace_id = workspaceId
    /\ row.server_version > cursor
    /\ (tables # {} => row.table_name \in tables)

\* One change_log row as a SyncChange.
ToSyncChange(row) ==
    [serverVersion |-> row.server_version, tableName |-> row.table_name,
     pk |-> row.pk, op |-> row.op,
     payload |-> IF row.payload_json # NullJson
                 THEN [present |-> TRUE, obj |-> JsonParse(row.payload_json)]
                 ELSE NoPayload,
     stamp |-> [clock |-> row.clock, hlc |-> row.hlc,
                deviceId |-> row.device_id, opId |-> row.op_id]]

\* Mutant: next_cursor is the request's cursor whatever was returned.
PullResponseCursorKept(log, workspaceId, cursor, limit, tables) ==
    LET fetchLimit == IF limit < fetchCap THEN limit ELSE fetchCap
        rows == Limit(OrderByServerVersion(
                          {r \in log : PullMatches(r, workspaceId, cursor, tables)}),
                      fetchLimit + 1)
        hasMore == Len(rows) > fetchLimit
        resultRows == IF hasMore THEN SubSeq(rows, 1, fetchLimit) ELSE rows
    IN [changes |-> [i \in 1..Len(resultRows) |-> ToSyncChange(resultRows[i])],
        nextCursor |-> cursor,
        hasMore |-> hasMore]

\* The response of pull on a given change_log.
PullResponse(log, workspaceId, cursor, limit, tables) ==
    LET fetchLimit == IF limit < fetchCap THEN limit ELSE fetchCap
        rows == Limit(OrderByServerVersion(
                          {r \in log : PullMatches(r, workspaceId, cursor, tables)}),
                      fetchLimit + 1)
        hasMore == Len(rows) > fetchLimit
        resultRows == IF hasMore THEN SubSeq(rows, 1, fetchLimit) ELSE rows
    IN [changes |-> [i \in 1..Len(resultRows) |-> ToSyncChange(resultRows[i])],
        nextCursor |-> IF Len(resultRows) > 0
                       THEN resultRows[Len(resultRows)].server_version
                       ELSE cursor,
        hasMore |-> hasMore]

\* pull(input): reads the change_log, changes nothing.
Pull(workspaceId, cursor, limit, tables) ==
    /\ resp' = [kind |-> "pull", workspace |-> workspaceId, cursor |-> cursor,
                limit |-> limit, tables |-> tables,
                out |-> PullResponse(changeLog, workspaceId, cursor, limit, tables)]
    /\ UNCHANGED <<counter, changeLog, materialized, tombstones, cursors, now,
                   committed, cursorCalls, gcMissed>>

\* Mutant: the upsert overwrites with the incoming version.
ForwardOnlyOverwrite(existingVersion, incomingVersion) == incomingVersion

\* MAX(device_cursors.last_seen_version, excluded.last_seen_version)
ForwardOnly(existingVersion, incomingVersion) ==
    IF existingVersion > incomingVersion THEN existingVersion ELSE incomingVersion

\* INSERT INTO device_cursors ... ON CONFLICT(workspace_id, device_id) DO UPDATE
UpsertCursor(cur, workspaceId, deviceId, version, nowv) ==
    LET conflict == {c \in cur : c.workspace_id = workspaceId /\ c.device_id = deviceId}
    IN IF conflict = {}
       THEN cur \cup {[workspace_id |-> workspaceId, device_id |-> deviceId,
                       last_seen_version |-> version, updated_at |-> nowv]}
       ELSE {IF c \in conflict
             THEN [c EXCEPT !.last_seen_version =
                                ForwardOnly(c.last_seen_version, version),
                            !.updated_at = nowv]
             ELSE c : c \in cur}

\* updateCursor(input)
UpdateCursor(workspaceId, deviceId, version) ==
    /\ cursors' = UpsertCursor(cursors, workspaceId, deviceId, version, now)
    /\ resp' = [kind |-> "updateCursor", workspace |-> workspaceId,
                deviceId |-> deviceId, version |-> version]
    /\ UNCHANGED <<counter, changeLog, materialized, tombstones, now, committed,
                   gcMissed>>

\* Mutant: MAX instead of MIN.
MinCursorUsesMax(cur, workspaceId) ==
    LET versions == {c.last_seen_version : c \in {x \in cur : x.workspace_id = workspaceId}}
    IN IF versions = {} THEN 0 ELSE Max(versions)

\* SELECT MIN(last_seen_version) ... WHERE workspace_id = ?, and ?? 0
MinCursor(cur, workspaceId) ==
    LET versions == {c.last_seen_version : c \in {x \in cur : x.workspace_id = workspaceId}}
    IN IF versions = {} THEN 0 ELSE Min(versions)

\* Mutant: the DELETE has no workspace_id = ? condition.
GcEligibleAnyWorkspace(row, workspaceId, minCursor, cutoff) ==
    /\ row.server_version < minCursor
    /\ row.created_at < cutoff

\* The WHERE clause shared by both GC deletes.
GcEligible(row, workspaceId, minCursor, cutoff) ==
    /\ row.workspace_id = workspaceId
    /\ row.server_version < minCursor
    /\ row.created_at < cutoff

\* gcTombstones(input): one DELETE statement.
GcTombstones(workspaceId, retentionSeconds) ==
    LET minCursor == MinCursor(cursors, workspaceId)
        cutoff == now - retentionSeconds
    IN /\ tombstones' = {t \in tombstones :
                            ~GcEligible(t, workspaceId, minCursor, cutoff)}
       /\ resp' = [kind |-> "gcTombstones", workspace |-> workspaceId]
       /\ UNCHANGED <<counter, changeLog, materialized, cursors, now, committed,
                      cursorCalls, gcMissed>>

BATCH_SIZE == 1000

\* Mutant: the inner SELECT has no LIMIT.
GcBatchUnlimited(log, workspaceId, minCursor, cutoff) ==
    {r \in log : GcEligible(r, workspaceId, minCursor, cutoff)}

\* SELECT rowid FROM change_log WHERE ... LIMIT BATCH_SIZE.  The range scan
\* runs over idx_change_log_ws_sv (workspace_id, server_version), so the
\* rows come in ascending server_version and the LIMIT keeps the lowest.
GcBatch(log, workspaceId, minCursor, cutoff) ==
    LET eligible == {r \in log : GcEligible(r, workspaceId, minCursor, cutoff)}
    IN IF Cardinality(eligible) <= BATCH_SIZE THEN eligible
       ELSE {r \in eligible :
               Cardinality({q \in eligible : q.server_version < r.server_version})
                 < BATCH_SIZE}

\* Mutant: one DELETE ... LIMIT BATCH_SIZE and no loop.
GcChangeLogOneBatch(log, workspaceId, minCursor, cutoff) ==
    log \ GcBatch(log, workspaceId, minCursor, cutoff)

RECURSIVE GcChangeLogRun(_, _, _, _, _)
\* do { DELETE ... LIMIT BATCH_SIZE } while (deleted >= BATCH_SIZE), one
\* autocommitted statement per turn and no transaction around the loop.
\* The statement number failAt throws (0: none does); a statement that
\* throws deletes nothing and the exception leaves the method.  Gives the
\* change_log left and result.changes of the statements that ran.
GcChangeLogRun(log, workspaceId, minCursor, cutoff, failAt) ==
    IF failAt = 1
    THEN [log |-> log, threw |-> TRUE, deleted |-> <<>>]
    ELSE LET batch == GcBatch(log, workspaceId, minCursor, cutoff)
             deleted == Cardinality(batch)
         IN IF deleted >= BATCH_SIZE
            THEN LET rest == GcChangeLogRun(log \ batch, workspaceId, minCursor,
                                            cutoff,
                                            IF failAt = 0 THEN 0 ELSE failAt - 1)
                 IN [rest EXCEPT !.deleted = <<deleted>> \o @]
            ELSE [log |-> log \ batch, threw |-> FALSE, deleted |-> <<deleted>>]

\* The change_log after the loop when no statement throws.
GcChangeLogLoop(log, workspaceId, minCursor, cutoff) ==
    GcChangeLogRun(log, workspaceId, minCursor, cutoff, 0).log

\* gcChangeLog(input)
GcChangeLog(workspaceId, retentionSeconds) ==
    LET minCursor == MinCursor(cursors, workspaceId)
        cutoff == now - retentionSeconds
    IN /\ changeLog' = GcChangeLogLoop(changeLog, workspaceId, minCursor, cutoff)
       /\ resp' = [kind |-> "gcChangeLog", workspace |-> workspaceId]
       /\ gcMissed' = IF changeLog' = changeLog THEN gcMissed
                      ELSE gcMissed \cup
                           {<<workspaceId, d>> : d \in
                              {x \in Devices :
                                 ~\E c \in cursors : /\ c.workspace_id = workspaceId
                                                     /\ c.device_id = x}}
       /\ UNCHANGED <<counter, materialized, tombstones, cursors, now, committed,
                      cursorCalls>>

\* gcChangeLog(input) whose statement number failAt throws a storage error:
\* the call rejects, what the earlier statements deleted is committed.
GcChangeLogFails(workspaceId, retentionSeconds, failAt) ==
    LET minCursor == MinCursor(cursors, workspaceId)
        cutoff == now - retentionSeconds
        run == GcChangeLogRun(changeLog, workspaceId, minCursor, cutoff, failAt)
    IN /\ failAt >= 1
       /\ run.threw
       /\ changeLog' = run.log
       /\ resp' = [kind |-> "gcChangeLog", workspace |-> workspaceId,
                   threw |-> TRUE, deleted |-> run.deleted]
       /\ gcMissed' = IF changeLog' = changeLog THEN gcMissed
                      ELSE gcMissed \cup
                           {<<workspaceId, d>> : d \in
                              {x \in Devices :
                                 ~\E c \in cursors : /\ c.workspace_id = workspaceId
                                                     /\ c.device_id = x}}
       /\ UNCHANGED <<counter, materialized, tombstones, cursors, now, committed,
                      cursorCalls>>

\* Time passes between calls.
Tick ==
    /\ now < MaxNow
    /\ now' = now + 1
    /\ UNCHANGED <<counter, changeLog, materialized, tombstones, cursors, resp,
                   committed, cursorCalls, gcMissed>>

----------------------------------------------------------------------------
(* Identity store: getOrCreateUser *)

\* Mutant: the account is looked up by provider alone.
SelectAccountByProvider(accounts, provider, providerUserId) ==
    {a \in accounts : a.provider = provider}

\* SELECT user_id FROM auth_accounts WHERE provider = ? AND provider_user_id = ?
SelectAccount(accounts, provider, providerUserId) ==
    {a \in accounts : a.provider = provider /\ a.provider_user_id = providerUserId}

\* The body of the immediate transaction of getOrCreateUser.  uid() hands
\* out uidCounter + 1, uidCounter + 2, ...
GetOrCreateUserTx(usr, accounts, uidc, input, nowv) ==
    LET existing == SelectAccount(accounts, input.provider, input.providerUserId)
    IN IF existing # {}
       THEN [threw |-> FALSE, users |-> usr, accounts |-> accounts, uidc |-> uidc,
             userId |-> (CHOOSE a \in existing : TRUE).user_id]
       ELSE LET createdUserId == uidc + 1
                usr1 == usr \cup {[id |-> createdUserId, email |-> input.email,
                                   display_name |-> input.displayName,
                                   active_workspace_id |-> SqlNull,
                                   created_at |-> nowv]}
                \* unique index idx_auth_accounts_provider_uid
                conflict == \E a \in accounts :
                               /\ a.provider = input.provider
                               /\ a.provider_user_id = input.providerUserId
            IN IF ~conflict
               THEN [threw |-> FALSE, users |-> usr1,
                     accounts |-> accounts \cup
                        {[id |-> uidc + 2, user_id |-> createdUserId,
                          provider |-> input.provider,
                          provider_user_id |-> input.providerUserId,
                          created_at |-> nowv]},
                     uidc |-> uidc + 2, userId |-> createdUserId]
               ELSE LET usr2 == {u \in usr1 :
                                   ~(u.id = createdUserId
                                     /\ ~\E a \in accounts : a.user_id = createdUserId)}
                        winner == SelectAccount(accounts, input.provider,
                                                input.providerUserId)
                    IN IF winner # {}
                       THEN [threw |-> FALSE, users |-> usr2, accounts |-> accounts,
                             uidc |-> uidc + 2,
                             userId |-> (CHOOSE a \in winner : TRUE).user_id]
                       ELSE [threw |-> TRUE, users |-> usr, accounts |-> accounts,
                             uidc |-> uidc + 2, userId |-> 0]

\* A caller issues getOrCreateUser(input).
GetOrCreateUserCall(c, input) ==
    /\ authCalls[c].pc = "idle"
    /\ authCalls' = [authCalls EXCEPT ![c] = [pc |-> "called", input |-> input,
                                              userId |-> 0]]
    /\ UNCHANGED <<users, authAccounts, uidCounter>>

\* The transaction of a pending call runs (BEGIN IMMEDIATE: one at a time)
\* and the call returns or, when the transaction throws, fails.
GetOrCreateUserRun(c) ==
    /\ authCalls[c].pc = "called"
    /\ uidCounter + 2 <= MaxUid
    /\ LET tx == GetOrCreateUserTx(users, authAccounts, uidCounter,
                                   authCalls[c].input, now)
       IN /\ uidCounter' = tx.uidc
          /\ users' = tx.users
          /\ authAccounts' = tx.accounts
          /\ authCalls' = [authCalls EXCEPT
                             ![c].pc = IF tx.threw THEN "failed" ELSE "returned",
                             ![c].userId = tx.userId]

----------------------------------------------------------------------------
(* Workspace store (sqlite-auth-workspace-store.ts) and admin workspace    *)
(* access store.  Every handler is one action; SELECT ... LIMIT 1 without  *)
(* ORDER BY may return any matching row.                                   *)

\* A uuid as text.
UidText(n) == ToString(n)

\* uid() of a new workspace: a random uuid, so an id no row has.  Workspace
\* rows are never removed, and the n-th workspace is given the text of n.
NewWorkspaceId(ws) == UidText(Cardinality(ws) + 1)

\* String.prototype.trim and toLowerCase on the texts of the model.
Trim(s) ==
    IF s = " A@X.io " THEN "A@X.io" ELSE IF s = " YES " THEN "YES" ELSE s
ToLowerCase(s) ==
    IF s = "A@X.io" THEN "a@x.io" ELSE IF s = "YES" THEN "yes" ELSE s
normalizeEmail(value) == ToLowerCase(Trim(value))
isEmail(value) == value \in {"a@x.io", "A@X.io", " A@X.io "}

\* The argument emailOrProviderId is a text; a text that is the id of a
\* user carries that id in n, every other text has n = 0 (no user has id 0).
TextLookup(s) == [s |-> s, n |-> 0]
UserIdLookup(n) == [s |-> UidText(n), n |-> n]

\* UPDATE users SET active_workspace_id = value WHERE id IN ids
SetActiveWhere(usr, ids, value) ==
    {IF u.id \in ids THEN [u EXCEPT !.active_workspace_id = value] ELSE u :
        u \in usr}

\* Mutant: the join does not look at workspaces.deleted.
LiveMembershipsAnyState(ws, mem, userId) ==
    {m \in mem : /\ m.user_id = userId
                 /\ \E w \in ws : w.id = m.workspace_id}

\* workspace_members INNER JOIN workspaces
\*   WHERE workspace_members.user_id = ? AND workspaces.deleted = 0
LiveMemberships(ws, mem, userId) ==
    {m \in mem : /\ m.user_id = userId
                 /\ \E w \in ws : w.id = m.workspace_id /\ w.deleted = 0}

WorkspaceRow(workspaceId, name, description, userId, nowv) ==
    [id |-> workspaceId, name |-> name, description |-> description,
     owner_user_id |-> userId, created_at |-> nowv, deleted |-> 0,
     deleted_at |-> SqlNullInt]

MemberRow(workspaceId, userId, role, nowv) ==
    [workspace_id |-> workspaceId, user_id |-> userId, role |-> role,
     created_at |-> nowv]

\* The outcome of a call, with the arguments it was made with.
WsThrow(kind, userId, workspaceId, message) ==
    [kind |-> kind, userId |-> userId, workspaceId |-> workspaceId,
     threw |-> TRUE, error |-> message]

WsReturn(kind, userId, workspaceId) ==
    [kind |-> kind, userId |-> userId, workspaceId |-> workspaceId,
     threw |-> FALSE]

GetOrCreateDefaultWorkspace(userId) ==
    LET live == LiveMemberships(workspaces, workspaceMembers, userId)
    IN IF live # {}
       THEN \E membership \in live :
              /\ users' = SetActiveWhere(users,
                    {u.id : u \in {x \in users :
                        x.id = userId /\ x.active_workspace_id = SqlNull}},
                    membership.workspace_id)
              /\ wsResp' = WsReturn("getOrCreateDefaultWorkspace", userId,
                                    membership.workspace_id)
              /\ UNCHANGED <<workspaces, workspaceMembers, uidCounter,
                             authAccounts>>
       ELSE LET workspaceId == NewWorkspaceId(workspaces)
            IN /\ Cardinality(workspaces) < MaxWorkspaces
               /\ workspaces' = workspaces \cup
                     {WorkspaceRow(workspaceId, "My Workspace", SqlNull, userId, now)}
               /\ workspaceMembers' = workspaceMembers \cup
                     {MemberRow(workspaceId, userId, "owner", now)}
               /\ users' = SetActiveWhere(users, {userId}, workspaceId)
               /\ wsResp' = WsReturn("getOrCreateDefaultWorkspace", userId,
                                     workspaceId)
               /\ UNCHANGED <<authAccounts, uidCounter>>

CreateWorkspace(userId, name, description) ==
    LET workspaceId == NewWorkspaceId(workspaces)
    IN /\ Cardinality(workspaces) < MaxWorkspaces
       /\ workspaces' = workspaces \cup
             {WorkspaceRow(workspaceId, name, description, userId, now)}
       /\ workspaceMembers' = workspaceMembers \cup
             {MemberRow(workspaceId, userId, "owner", now)}
       /\ wsResp' = WsReturn("createWorkspace", userId, workspaceId)
       /\ UNCHANGED <<users, authAccounts, uidCounter>>

\* SELECT id FROM users WHERE active_workspace_id = ?
AffectedUsers(usr, workspaceId) ==
    {u.id : u \in {x \in usr : x.active_workspace_id = workspaceId}}

\* Mutant: the next workspace is any membership of the user, deleted or not.
NextWorkspaceAnyMembership(ws, mem, userId, workspaceId) ==
    LET next == {m.workspace_id : m \in {x \in mem : x.user_id = userId}}
    IN IF next = {} THEN {SqlNull} ELSE next

\* The values next?.id ?? null can take for an affected user: any other
\* non-deleted workspace the user belongs to, null when there is none.
NextWorkspace(ws, mem, userId, workspaceId) ==
    LET next == {m.workspace_id : m \in
                    {x \in LiveMemberships(ws, mem, userId) :
                        x.workspace_id # workspaceId}}
    IN IF next = {} THEN {SqlNull} ELSE next

\* removeWorkspace, the transaction: the soft delete and the re-homing of
\* every user whose pointer is the workspace.
RemoveWorkspaceTransaction(userId, workspaceId) ==
    LET ws1 == {IF w.id = workspaceId
                THEN [w EXCEPT !.deleted = 1, !.deleted_at = now]
                ELSE w : w \in workspaces}
        affectedUsers == AffectedUsers(users, workspaceId)
    IN \E next \in [affectedUsers ->
                      {w.id : w \in workspaces} \cup {SqlNull}] :
          /\ \A a \in affectedUsers :
                next[a] \in NextWorkspace(ws1, workspaceMembers, a,
                                          workspaceId)
          /\ workspaces' = ws1
          /\ users' = {IF u.id \in affectedUsers
                       THEN [u EXCEPT !.active_workspace_id = next[u.id]]
                       ELSE u : u \in users}
          /\ wsResp' = [kind |-> "removeWorkspace", userId |-> userId,
                        workspaceId |-> workspaceId, threw |-> FALSE,
                        rehomed |-> affectedUsers]
          /\ UNCHANGED <<authAccounts, uidCounter, workspaceMembers>>

RemoveWorkspace(userId, workspaceId) ==
    LET member == {m \in workspaceMembers :
                      m.workspace_id = workspaceId /\ m.user_id = userId}
    IN IF member = {} \/ \E m \in member : m.role # "owner"
       THEN /\ wsResp' = WsThrow("removeWorkspace", userId, workspaceId,
                                 "Forbidden: only owner can remove workspace")
            /\ UNCHANGED <<users, authAccounts, uidCounter, workspaces,
                           workspaceMembers>>
       ELSE RemoveWorkspaceTransaction(userId, workspaceId)

SetActiveWorkspace(userId, workspaceId) ==
    LET member == {m \in LiveMemberships(workspaces, workspaceMembers, userId) :
                      m.workspace_id = workspaceId}
    IN IF member = {}
       THEN /\ wsResp' = WsThrow("setActiveWorkspace", userId, workspaceId,
                                 "Forbidden: not a member of this workspace")
            /\ UNCHANGED <<users, authAccounts, uidCounter, workspaces,
                           workspaceMembers>>
       ELSE /\ users' = SetActiveWhere(users, {userId}, workspaceId)
            /\ wsResp' = WsReturn("setActiveWorkspace", userId, workspaceId)
            /\ UNCHANGED <<authAccounts, uidCounter, workspaces,
                           workspaceMembers>>

\* The store's methods statement by statement.  Every awaited query is a
\* step of its own: the connection is free between two awaits of a call,
\* and another call's statement or transaction can run there.  A
\* db.transaction().execute(...) holds the connection from BEGIN to COMMIT
\* and is one step.  wsCalls[c] is the call of caller c: what the
\* statements that ran have left in its local variables, and, once it has
\* returned or thrown, its outcome.
WsCallFree(c) == wsCalls[c].pc \in {"idle", "done"}
WsCallDone(out) == [pc |-> "done", out |-> out]

\* setActiveWorkspace, lines 727-738: const member = await db.selectFrom(...)
SetActiveWorkspaceSelect(c, userId, workspaceId) ==
    LET member == {m \in LiveMemberships(workspaces, workspaceMembers, userId) :
                      m.workspace_id = workspaceId}
    IN /\ WsCallFree(c)
       /\ IF member = {}
          THEN /\ wsResp' = WsThrow("setActiveWorkspace", userId, workspaceId,
                                    "Forbidden: not a member of this workspace")
               /\ wsCalls' = [wsCalls EXCEPT ![c] = WsCallDone(wsResp')]
          ELSE /\ wsCalls' = [wsCalls EXCEPT ![c] =
                     [pc |-> "setActiveUpdate", userId |-> userId,
                      workspaceId |-> workspaceId]]
               /\ UNCHANGED wsResp
       /\ UNCHANGED <<users, authAccounts, uidCounter, workspaces,
                      workspaceMembers>>

\* setActiveWorkspace, lines 740-744: await db.updateTable('users')...
SetActiveWorkspaceUpdate(c) ==
    /\ wsCalls[c].pc = "setActiveUpdate"
    /\ users' = SetActiveWhere(users, {wsCalls[c].userId}, wsCalls[c].workspaceId)
    /\ wsResp' = WsReturn("setActiveWorkspace", wsCalls[c].userId,
                          wsCalls[c].workspaceId)
    /\ wsCalls' = [wsCalls EXCEPT ![c] = WsCallDone(wsResp')]
    /\ UNCHANGED <<authAccounts, uidCounter, workspaces, workspaceMembers>>

\* removeWorkspace, lines 672-681: the role query and the owner check.
RemoveWorkspaceSelect(c, userId, workspaceId) ==
    LET member == {m \in workspaceMembers :
                      m.workspace_id = workspaceId /\ m.user_id = userId}
    IN /\ WsCallFree(c)
       /\ IF member = {} \/ \E m \in member : m.role # "owner"
          THEN /\ wsResp' = WsThrow("removeWorkspace", userId, workspaceId,
                                    "Forbidden: only owner can remove workspace")
               /\ wsCalls' = [wsCalls EXCEPT ![c] = WsCallDone(wsResp')]
          ELSE /\ wsCalls' = [wsCalls EXCEPT ![c] =
                     [pc |-> "removeTransaction", userId |-> userId,
                      workspaceId |-> workspaceId]]
               /\ UNCHANGED wsResp
       /\ UNCHANGED <<users, authAccounts, uidCounter, workspaces,
                      workspaceMembers>>

\* removeWorkspace, lines 683-717: await db.transaction().execute(...)
RemoveWorkspaceRun(c) ==
    /\ wsCalls[c].pc = "removeTransaction"
    /\ RemoveWorkspaceTransaction(wsCalls[c].userId, wsCalls[c].workspaceId)
    /\ wsCalls' = [wsCalls EXCEPT ![c] = WsCallDone(wsResp')]

\* getOrCreateDefaultWorkspace, lines 472-481: the membership query.
\* executeTakeFirst without ORDER BY: any of the rows.
GetOrCreateDefaultWorkspaceSelect(c, userId) ==
    LET live == LiveMemberships(workspaces, workspaceMembers, userId)
    IN /\ WsCallFree(c)
       /\ IF live # {}
          THEN \E membership \in live :
                  wsCalls' = [wsCalls EXCEPT ![c] =
                     [pc |-> "defaultUpdate", userId |-> userId,
                      workspaceId |-> membership.workspace_id]]
          ELSE wsCalls' = [wsCalls EXCEPT ![c] =
                     [pc |-> "defaultTransaction", userId |-> userId]]
       /\ UNCHANGED <<users, authAccounts, uidCounter, workspaces,
                      workspaceMembers, wsResp>>

\* getOrCreateDefaultWorkspace, lines 483-493: if (membership) { UPDATE
\* users ... WHERE id = ? AND active_workspace_id IS NULL; return }
GetOrCreateDefaultWorkspaceUpdate(c) ==
    /\ wsCalls[c].pc = "defaultUpdate"
    /\ users' = SetActiveWhere(users,
          {u.id : u \in {x \in users :
              x.id = wsCalls[c].userId /\ x.active_workspace_id = SqlNull}},
          wsCalls[c].workspaceId)
    /\ wsResp' = WsReturn("getOrCreateDefaultWorkspace", wsCalls[c].userId,
                          wsCalls[c].workspaceId)
    /\ wsCalls' = [wsCalls EXCEPT ![c] = WsCallDone(wsResp')]
    /\ UNCHANGED <<authAccounts, uidCounter, workspaces, workspaceMembers>>

\* getOrCreateDefaultWorkspace, lines 495-533: uid() and the transaction
\* that inserts the workspace and the owner row and sets the pointer.  The
\* uuid is one no row has, whenever it is drawn.
GetOrCreateDefaultWorkspaceCreate(c) ==
    LET workspaceId == NewWorkspaceId(workspaces)
        userId == wsCalls[c].userId
    IN /\ wsCalls[c].pc = "defaultTransaction"
       /\ Cardinality(workspaces) < MaxWorkspaces
       /\ workspaces' = workspaces \cup
             {WorkspaceRow(workspaceId, "My Workspace", SqlNull, userId, now)}
       /\ workspaceMembers' = workspaceMembers \cup
             {MemberRow(workspaceId, userId, "owner", now)}
       /\ users' = SetActiveWhere(users, {userId}, workspaceId)
       /\ wsResp' = WsReturn("getOrCreateDefaultWorkspace", userId, workspaceId)
       /\ wsCalls' = [wsCalls EXCEPT ![c] = WsCallDone(wsResp')]
       /\ UNCHANGED <<authAccounts, uidCounter>>

\* The user resolution of upsertMember: the outcomes [users, accounts,
\* uidc, userId] it can have.
ResolveMember(usr, accounts, uidc, lookup, lookupId, provider, nowv) ==
    IF isEmail(lookup)
    THEN LET normalized == normalizeEmail(lookup)
             existing == {u \in usr : u.email = normalized}
         IN IF existing # {}
            THEN {[users |-> usr, accounts |-> accounts, uidc |-> uidc,
                   userId |-> u.id] : u \in existing}
            ELSE {[users |-> usr \cup
                      {[id |-> uidc + 1, email |-> normalized,
                        display_name |-> SqlNull,
                        active_workspace_id |-> SqlNull, created_at |-> nowv]},
                   accounts |-> accounts, uidc |-> uidc + 1,
                   userId |-> uidc + 1]}
    ELSE LET account == IF provider # ""
                        THEN SelectAccount(accounts, provider, lookup)
                        ELSE {a \in accounts : a.provider_user_id = lookup}
             byUserId == {u \in usr : u.id = lookupId}
         IN IF account # {}
            THEN {[users |-> usr, accounts |-> accounts, uidc |-> uidc,
                   userId |-> a.user_id] : a \in account}
            ELSE IF byUserId # {}
            THEN {[users |-> usr, accounts |-> accounts, uidc |-> uidc,
                   userId |-> u.id] : u \in byUserId}
            ELSE {[users |-> usr \cup
                      {[id |-> uidc + 1, email |-> SqlNull,
                        display_name |-> SqlNull,
                        active_workspace_id |-> SqlNull, created_at |-> nowv]},
                   accounts |-> accounts \cup
                      {[id |-> uidc + 2, user_id |-> uidc + 1,
                        provider |-> IF provider # "" THEN provider ELSE "custom",
                        provider_user_id |-> lookup, created_at |-> nowv]},
                   uidc |-> uidc + 2, userId |-> uidc + 1]}

\* INSERT INTO workspace_members ...
\*   ON CONFLICT(workspace_id, user_id) DO UPDATE SET role = excluded.role
UpsertMemberRow(mem, workspaceId, userId, role, nowv) ==
    IF \E m \in mem : m.workspace_id = workspaceId /\ m.user_id = userId
    THEN {IF m.workspace_id = workspaceId /\ m.user_id = userId
          THEN [m EXCEPT !.role = role] ELSE m : m \in mem}
    ELSE mem \cup {MemberRow(workspaceId, userId, role, nowv)}

UpsertMember(workspaceId, emailOrProviderId, role, provider) ==
    LET workspace == {w \in workspaces : w.id = workspaceId}
    IN IF workspace = {} \/ \E w \in workspace : w.deleted = 1
       THEN /\ wsResp' = WsThrow("upsertMember", 0, workspaceId,
                                 "Workspace not found")
            /\ UNCHANGED <<users, authAccounts, uidCounter, workspaces,
                           workspaceMembers>>
       ELSE \E res \in ResolveMember(users, authAccounts, uidCounter,
                                     Trim(emailOrProviderId.s),
                                     emailOrProviderId.n, Trim(provider), now) :
              /\ res.uidc <= MaxUid
              /\ Cardinality(res.users) <= MaxUsers
              /\ users' = res.users
              /\ authAccounts' = res.accounts
              /\ uidCounter' = res.uidc
              /\ workspaceMembers' = UpsertMemberRow(workspaceMembers,
                                        workspaceId, res.userId, role, now)
              /\ wsResp' = WsReturn("upsertMember", res.userId, workspaceId)
              /\ UNCHANGED workspaces

SetMemberRole(workspaceId, userId, role) ==
    LET updated == {m \in workspaceMembers :
                       m.workspace_id = workspaceId /\ m.user_id = userId}
    IN /\ workspaceMembers' = {IF m \in updated THEN [m EXCEPT !.role = role]
                               ELSE m : m \in workspaceMembers}
       /\ wsResp' = IF Cardinality(updated) = 0
                    THEN WsThrow("setMemberRole", userId, workspaceId,
                                 "Workspace member not found")
                    ELSE WsReturn("setMemberRole", userId, workspaceId)
       /\ UNCHANGED <<users, authAccounts, uidCounter, workspaces>>

RemoveMember(workspaceId, userId) ==
    /\ workspaceMembers' = {m \in workspaceMembers :
                              ~(m.workspace_id = workspaceId /\ m.user_id = userId)}
    /\ wsResp' = WsReturn("removeMember", userId, workspaceId)
    /\ UNCHANGED <<users, authAccounts, uidCounter, workspaces>>

SoftDeleteWorkspace(workspaceId, deletedAt) ==
    /\ workspaces' = {IF w.id = workspaceId
                      THEN [w EXCEPT !.deleted = 1, !.deleted_at = deletedAt]
                      ELSE w : w \in workspaces}
    /\ wsResp' = WsReturn("softDeleteWorkspace", 0, workspaceId)
    /\ UNCHANGED <<users, authAccounts, uidCounter, workspaceMembers>>

RestoreWorkspace(workspaceId) ==
    /\ workspaces' = {IF w.id = workspaceId
                      THEN [w EXCEPT !.deleted = 0, !.deleted_at = SqlNullInt]
                      ELSE w : w \in workspaces}
    /\ wsResp' = WsReturn("restoreWorkspace", 0, workspaceId)
    /\ UNCHANGED <<users, authAccounts, uidCounter, workspaceMembers>>

\* type WorkspaceRole / Role
WorkspaceRoles == {"owner", "editor", "viewer"}

\* SELECT role FROM workspace_members WHERE workspace_id = ? AND user_id = ?
MemberOf(mem, workspaceId, userId) ==
    {m \in mem : m.workspace_id = workspaceId /\ m.user_id = userId}

\* Mutant: every member passes the role check of updateWorkspace.
UpdateForbiddenForNonMembers(member) ==
    member = {}

\* !member || member.role === 'viewer'
UpdateForbidden(member) ==
    member = {} \/ \E m \in member : m.role = "viewer"

\* updateWorkspace(input); description ?? null is the caller's description.
UpdateWorkspace(userId, workspaceId, name, description) ==
    LET member == MemberOf(workspaceMembers, workspaceId, userId)
    IN IF UpdateForbidden(member)
       THEN /\ wsResp' = WsThrow("updateWorkspace", userId, workspaceId,
                                 "Forbidden: insufficient workspace role")
            /\ UNCHANGED <<users, authAccounts, uidCounter, workspaces,
                           workspaceMembers>>
       ELSE /\ workspaces' = {IF w.id = workspaceId /\ w.deleted = 0
                              THEN [w EXCEPT !.name = name,
                                             !.description = description]
                              ELSE w : w \in workspaces}
            /\ wsResp' = WsReturn("updateWorkspace", userId, workspaceId)
            /\ UNCHANGED <<users, authAccounts, uidCounter, workspaceMembers>>

\* Mutant: the join does not look at workspaces.deleted.
UserWorkspaceRowsAnyState(usr, ws, mem, userId) ==
    {[id |-> p[2].id, name |-> p[2].name, description |-> p[2].description,
      role |-> p[1].role, createdAt |-> p[2].created_at, isActive |-> FALSE] :
        p \in {q \in mem \X ws : /\ q[1].user_id = userId
                                 /\ q[1].workspace_id = q[2].id}}

\* The rows listUserWorkspaces(userId) returns: the join of the user's
\* memberships with the workspaces that are not soft-deleted.
UserWorkspaceRows(usr, ws, mem, userId) ==
    LET user == {u \in usr : u.id = userId}
        activeId == IF user = {} THEN SqlNull
                    ELSE (CHOOSE u \in user : TRUE).active_workspace_id
    IN {[id |-> p[2].id, name |-> p[2].name, description |-> p[2].description,
         role |-> p[1].role, createdAt |-> p[2].created_at,
         isActive |-> (p[2].id = activeId)] :
          p \in {q \in mem \X ws : /\ q[1].user_id = userId
                                   /\ q[1].workspace_id = q[2].id
                                   /\ q[2].deleted = 0}}

\* listUserWorkspaces(userId): two reads, no write.
ListUserWorkspaces(userId) ==
    /\ wsResp' = [kind |-> "listUserWorkspaces", userId |-> userId,
                  workspaceId |-> SqlNull, threw |-> FALSE,
                  rows |-> UserWorkspaceRows(users, workspaces, workspaceMembers,
                                             userId)]
    /\ UNCHANGED <<users, authAccounts, uidCounter, workspaces, workspaceMembers>>

\* upsertMember statement by statement.  The handler runs outside any
\* transaction and awaits every statement, so calls interleave between
\* statements; memberCalls[c].pc is the statement call c executes next.
MemberCall(pc, workspaceId, lookup, lookupId, role, provider, userId) ==
    [pc |-> pc, workspaceId |-> workspaceId, lookup |-> lookup,
     lookupId |-> lookupId, role |-> role, provider |-> provider,
     userId |-> userId]

\* SELECT id, deleted FROM workspaces WHERE id = ?; throw or go on.
UpsertMemberSelectWorkspace(c, workspaceId, emailOrProviderId, role, provider) ==
    LET workspace == {w \in workspaces : w.id = workspaceId}
    IN /\ memberCalls[c].pc = "idle"
       /\ IF workspace = {} \/ \E w \in workspace : w.deleted = 1
          THEN /\ wsResp' = WsThrow("upsertMember", 0, workspaceId,
                                    "Workspace not found")
               /\ UNCHANGED memberCalls
          ELSE /\ memberCalls' = [memberCalls EXCEPT ![c] =
                     MemberCall("select", workspaceId, Trim(emailOrProviderId.s),
                                emailOrProviderId.n, role, Trim(provider), 0)]
               /\ UNCHANGED wsResp
       /\ UNCHANGED <<users, authAccounts, uidCounter, workspaces, workspaceMembers>>

\* SELECT id FROM users WHERE email = ?, or
\* SELECT user_id FROM auth_accounts WHERE [provider = ? AND] provider_user_id = ?
UpsertMemberSelect(c) ==
    LET call == memberCalls[c]
        found == IF isEmail(call.lookup)
                 THEN {u.id : u \in {x \in users :
                                       x.email = normalizeEmail(call.lookup)}}
                 ELSE {a.user_id : a \in
                         IF call.provider # ""
                         THEN SelectAccount(authAccounts, call.provider, call.lookup)
                         ELSE {x \in authAccounts :
                                 x.provider_user_id = call.lookup}}
    IN /\ call.pc = "select"
       /\ IF found # {}
          THEN \E id \in found :
                 memberCalls' = [memberCalls EXCEPT ![c].pc = "upsert",
                                                    ![c].userId = id]
          ELSE memberCalls' = [memberCalls EXCEPT ![c].pc =
                                 IF isEmail(call.lookup) THEN "insertUser"
                                 ELSE "selectById"]
       /\ UNCHANGED <<users, authAccounts, uidCounter, workspaces,
                      workspaceMembers, wsResp>>

\* SELECT id FROM users WHERE id = ?
UpsertMemberSelectById(c) ==
    LET call == memberCalls[c]
        byUserId == {u.id : u \in {x \in users : x.id = call.lookupId}}
    IN /\ call.pc = "selectById"
       /\ IF byUserId # {}
          THEN \E id \in byUserId :
                 memberCalls' = [memberCalls EXCEPT ![c].pc = "upsert",
                                                    ![c].userId = id]
          ELSE memberCalls' = [memberCalls EXCEPT ![c].pc = "insertUser"]
       /\ UNCHANGED <<users, authAccounts, uidCounter, workspaces,
                      workspaceMembers, wsResp>>

\* userId = randomUUID(); INSERT INTO users (...)
UpsertMemberInsertUser(c) ==
    LET call == memberCalls[c]
        userId == uidCounter + 1
    IN /\ call.pc = "insertUser"
       /\ userId <= MaxUid
       /\ uidCounter' = userId
       /\ users' = users \cup
             {[id |-> userId,
               email |-> IF isEmail(call.lookup) THEN normalizeEmail(call.lookup)
                         ELSE SqlNull,
               display_name |-> SqlNull, active_workspace_id |-> SqlNull,
               created_at |-> now]}
       /\ memberCalls' = [memberCalls EXCEPT
                             ![c].pc = IF isEmail(call.lookup) THEN "upsert"
                                       ELSE "insertAccount",
                             ![c].userId = userId]
       /\ UNCHANGED <<authAccounts, workspaces, workspaceMembers, wsResp>>

\* INSERT INTO auth_accounts (...)
\*   ON CONFLICT(provider, provider_user_id) DO NOTHING
UpsertMemberInsertAccount(c) ==
    LET call == memberCalls[c]
        provider == IF call.provider # "" THEN call.provider ELSE "custom"
    IN /\ call.pc = "insertAccount"
       /\ uidCounter + 1 <= MaxUid
       /\ uidCounter' = uidCounter + 1
       /\ authAccounts' =
             IF \E a \in authAccounts : /\ a.provider = provider
                                        /\ a.provider_user_id = call.lookup
             THEN authAccounts
             ELSE authAccounts \cup
                    {[id |-> uidCounter + 1, user_id |-> call.userId,
                      provider |-> provider, provider_user_id |-> call.lookup,
                      created_at |-> now]}
       /\ memberCalls' = [memberCalls EXCEPT ![c].pc = "upsert"]
       /\ UNCHANGED <<users, workspaces, workspaceMembers, wsResp>>

\* INSERT INTO workspace_members ... ON CONFLICT DO UPDATE SET role; return.
UpsertMemberUpsertRow(c) ==
    LET call == memberCalls[c]
    IN /\ call.pc = "upsert"
       /\ workspaceMembers' = UpsertMemberRow(workspaceMembers, call.workspaceId,
                                              call.userId, call.role, now)
       /\ wsResp' = WsReturn("upsertMember", call.userId, call.workspaceId)
       /\ memberCalls' = [memberCalls EXCEPT ![c] = [pc |-> "idle"]]
       /\ UNCHANGED <<users, authAccounts, uidCounter, workspaces>>

----------------------------------------------------------------------------
(* Database singleton (runtime/server/db/kysely.ts) *)

\* undefined: an unset environment variable, an absent option.
Undefined == "undefined"

\* Mutant: only the exact text 'true' is a set flag.
envFlagExact(value) ==
    value = "true"

\* envFlag(value)
envFlag(value) ==
    IF value = Undefined \/ value = "" THEN FALSE
    ELSE ToLowerCase(Trim(value)) \in {"1", "true", "yes"}

\* a ?? b
NullishOr(a, b) == IF a = Undefined THEN b ELSE a

\* !value for a string or undefined
Falsy(value) == value = Undefined \/ value = ""

\* let instance = null
DbClosed == [kind |-> "none", instance |-> FALSE]

\* The body of getSqliteDb when there is no instance yet: what it throws
\* or opens, and how many warnings it prints.
OpenDb(optionsPath, env) ==
    LET isTestEnv == env.NODE_ENV = "test" \/ envFlag(env.VITEST)
        allowInMemory == envFlag(env.OR3_SQLITE_ALLOW_IN_MEMORY)
        strictMode == envFlag(env.OR3_SQLITE_STRICT)
        configuredPath == NullishOr(optionsPath, env.OR3_SQLITE_DB_PATH)
        path == NullishOr(configuredPath, ":memory:")
    IN IF Falsy(configuredPath) /\ ~isTestEnv /\ ~allowInMemory
       THEN [threw |-> TRUE, warnings |-> 0, path |-> path,
             error |-> "OR3_SQLITE_DB_PATH is required in non-test environments."]
       ELSE IF strictMode /\ path = ":memory:"
       THEN [threw |-> TRUE, warnings |-> 0, path |-> path,
             error |-> "OR3_SQLITE_STRICT=true forbids in-memory SQLite."]
       ELSE IF ~isTestEnv /\ path = ":memory:" /\ ~allowInMemory
       THEN [threw |-> TRUE, warnings |-> 0, path |-> path,
             error |-> "Using :memory: in non-test environments requires OR3_SQLITE_ALLOW_IN_MEMORY=true."]
       ELSE [threw |-> FALSE,
             warnings |-> IF ~isTestEnv /\ path = ":memory:" /\ allowInMemory
                          THEN 1 ELSE 0,
             path |-> path, error |-> ""]

\* getSqliteDb(options): the instance when there is one, else OpenDb.
GetSqliteDb(optionsPath, env) ==
    /\ db' = IF db.instance
             THEN [kind |-> "getSqliteDb", instance |-> TRUE, opened |-> FALSE,
                   optionsPath |-> optionsPath, env |-> env, threw |-> FALSE,
                   warnings |-> 0, path |-> db.path, error |-> ""]
             ELSE LET r == OpenDb(optionsPath, env)
                  IN [kind |-> "getSqliteDb", instance |-> ~r.threw,
                      opened |-> ~r.threw, optionsPath |-> optionsPath,
                      env |-> env, threw |-> r.threw, warnings |-> r.warnings,
                      path |-> r.path, error |-> r.error]
    /\ UNCHANGED <<invites, inviteResp>>

\* destroySqliteDb() / _resetForTest()
DestroySqliteDb ==
    /\ db' = DbClosed
    /\ UNCHANGED <<invites, inviteResp>>

----------------------------------------------------------------------------
(* Invites (auth_invites; createInvite, listInvites, revokeInvite,
   consumeInvite of the workspace store) *)

\* Mutant: a new row starts in the accepted status.
InviteDefaultStatusAccepted == "accepted"

\* auth_invites.status: text NOT NULL DEFAULT 'pending'
InviteDefaultStatus == "pending"

\* status of an invite
InviteStatuses == {"pending", "accepted", "revoked", "expired"}

\* The failure reason consumeInvite gives for an invite that is not pending.
InviteFailure(status) ==
    CASE status = "accepted" -> "already_used"
      [] status = "revoked" -> "revoked"
      [] OTHER -> "expired"

\* The row createInvite inserts; status is left to the column default.
InviteRow(id, workspaceId, email, role, invitedBy, tokenHash, expiresAt, nowv) ==
    [id |-> id, workspace_id |-> workspaceId, email |-> normalizeEmail(email),
     role |-> role, status |-> InviteDefaultStatus,
     invited_by_user_id |-> invitedBy, token_hash |-> tokenHash,
     expires_at |-> expiresAt, accepted_at |-> SqlNullInt,
     accepted_user_id |-> SqlNullInt, revoked_at |-> SqlNullInt,
     created_at |-> nowv]

\* The lazy expiry: pending invites of the workspace with now >= expires_at
\* become expired.
ExpirePending(inv, workspaceId, nowv) ==
    {IF /\ i.workspace_id = workspaceId
        /\ i.status = "pending"
        /\ nowv >= i.expires_at
     THEN [i EXCEPT !.status = "expired"] ELSE i : i \in inv}

InviteReturn(kind, workspaceId, inviteId, ok, reason) ==
    [kind |-> kind, workspaceId |-> workspaceId, inviteId |-> inviteId,
     ok |-> ok, reason |-> reason]

CreateInvite(workspaceId, email, role, invitedBy, tokenHash, ttl) ==
    LET id == Cardinality(invites) + 1
    IN /\ Cardinality(invites) < MaxInvites
       /\ invites' = invites \cup
             {InviteRow(id, workspaceId, email, role, invitedBy, tokenHash,
                        now + ttl, now)}
       /\ inviteResp' = InviteReturn("createInvite", workspaceId, id, TRUE, "")
       /\ UNCHANGED <<users, workspaceMembers>>

ListInvites(workspaceId) ==
    /\ invites' = ExpirePending(invites, workspaceId, now)
    /\ inviteResp' = InviteReturn("listInvites", workspaceId, 0, TRUE, "")
    /\ UNCHANGED <<users, workspaceMembers>>

\* pending -> revoked; a no-op if the invite is not pending.
RevokeInvite(workspaceId, inviteId) ==
    LET target == {i \in invites : /\ i.id = inviteId
                                   /\ i.workspace_id = workspaceId
                                   /\ i.status = "pending"}
    IN /\ invites' = {IF i \in target
                      THEN [i EXCEPT !.status = "revoked", !.revoked_at = now]
                      ELSE i : i \in invites}
       /\ inviteResp' = InviteReturn("revokeInvite", workspaceId, inviteId,
                                     target # {}, "")
       /\ UNCHANGED <<users, workspaceMembers>>

\* One transaction: lazy expiry, the oldest pending invite of (workspace,
\* lower-cased e-mail), the token check, accepted, the membership upsert and
\* the active workspace of the user.
ConsumeInvite(workspaceId, email, tokenHash, userId) ==
    LET normalized == normalizeEmail(email)
        fresh == ExpirePending(invites, workspaceId, now)
        mine == {i \in fresh : /\ i.workspace_id = workspaceId
                               /\ i.email = normalized}
        pending == {i \in mine : i.status = "pending"}
    IN IF mine = {}
       THEN /\ invites' = fresh
            /\ inviteResp' = InviteReturn("consumeInvite", workspaceId, 0,
                                          FALSE, "not_found")
            /\ UNCHANGED <<users, workspaceMembers>>
       ELSE IF pending = {}
       THEN \E i \in mine :
              /\ \A j \in mine : j.id <= i.id
              /\ invites' = fresh
              /\ inviteResp' = InviteReturn("consumeInvite", workspaceId, i.id,
                                            FALSE, InviteFailure(i.status))
              /\ UNCHANGED <<users, workspaceMembers>>
       ELSE \E invite \in pending :
              /\ \A j \in pending : invite.id <= j.id
              /\ IF invite.token_hash # tokenHash
                 THEN /\ invites' = fresh
                      /\ inviteResp' = InviteReturn("consumeInvite", workspaceId,
                                                    invite.id, FALSE,
                                                    "token_mismatch")
                      /\ UNCHANGED <<users, workspaceMembers>>
                 ELSE /\ invites' =
                           {IF i.id = invite.id
                            THEN [i EXCEPT !.status = "accepted",
                                           !.accepted_at = now,
                                           !.accepted_user_id = userId]
                            ELSE i : i \in fresh}
                      /\ workspaceMembers' =
                           UpsertMemberRow(workspaceMembers, workspaceId,
                                           userId, invite.role, now)
                      /\ users' = SetActiveWhere(users, {userId}, workspaceId)
                      /\ inviteResp' = InviteReturn("consumeInvite", workspaceId,
                                                    invite.id, TRUE, "")

----------------------------------------------------------------------------
(* Specifications *)

NoResp == [kind |-> "none"]

Init ==
    /\ counter = {}
    /\ changeLog = {}
    /\ materialized = {}
    /\ tombstones = {}
    /\ cursors = {}
    /\ now = 0
    /\ resp = NoResp
    /\ committed = {}
    /\ cursorCalls = {}
    /\ gcMissed = {}
    /\ users = {}
    /\ authAccounts = {}
    /\ uidCounter = 0
    /\ authCalls = [c \in Callers |-> [pc |-> "idle"]]
    /\ workspaces = {}
    /\ workspaceMembers = {}
    /\ wsResp = NoResp
    /\ memberCalls = [c \in Callers |-> [pc |-> "idle"]]
    /\ wsCalls = [c \in Callers |-> [pc |-> "idle"]]
    /\ db = DbClosed
    /\ invites = {}
    /\ inviteResp = NoResp

Op(opId, tableName, operation, pk, clock, hlc, deviceId, payload) ==
    [opId |-> opId, tableName |-> tableName, operation |-> operation, pk |-> pk,
     clock |-> clock, hlc |-> hlc, deviceId |-> deviceId, payload |-> payload]

\* Ops with one stamp: a put on an allowed table and a put on a table
\* outside the allowlist.
GatewayOps ==
    {Op(id, t, "put", "t1", 1, <<1>>, "dA", NoPayload) :
        id \in OpIds, t \in {"threads", "bogus"}}

MaxBatch == 2

RECURSIVE SeqsUpTo(_, _)
SeqsUpTo(S, n) ==
    IF n = 0 THEN {<<>>}
    ELSE LET shorter == SeqsUpTo(S, n - 1)
         IN shorter \cup {Append(b, x) : b \in {q \in shorter : Len(q) = n - 1}, x \in S}

GatewayBatches == SeqsUpTo(GatewayOps, MaxBatch)

PushAny == \E w \in Workspaces, ops \in GatewayBatches : Push(w, ops)

PushOne(wsSet, opSet) == \E w \in wsSet, op \in opSet : Push(w, <<op>>)

PullAny ==
    \E w \in Workspaces, c \in 0..MaxCounter, l \in 0..MaxLimit,
       t \in {{}, {"threads"}} : Pull(w, c, l, t)

UpdateCursorAny(wsSet, versions) ==
    \E w \in wsSet, d \in Devices, v \in versions :
        UpdateCursor(w, d, v) /\ UNCHANGED cursorCalls

GcTombstonesAny(wsSet) == \E w \in wsSet, r \in Retentions : GcTombstones(w, r)

GcChangeLogAny(wsSet) == \E w \in wsSet, r \in Retentions : GcChangeLog(w, r)

\* The whole gateway.
Next ==
    /\ \/ PushAny
       \/ PullAny
       \/ UpdateCursorAny(Workspaces, 0..MaxCursorVersion)
       \/ GcTombstonesAny(Workspaces)
       \/ GcChangeLogAny(Workspaces)
       \/ Tick
    /\ UNCHANGED <<authVars, wsVars, extVars>>

Spec == Init /\ [][Next]_vars

\* Pushes of whole batches only: version allocation, dedupe, replay,
\* validation.
NextPush == PushAny /\ UNCHANGED <<authVars, wsVars, extVars>>

SpecPush == Init /\ [][NextPush]_vars

\* Pushes of whole batches into one workspace: validation.
ValidateWorkspaces == {"wsA"}

NextValidate ==
    /\ \E w \in ValidateWorkspaces, ops \in GatewayBatches : Push(w, ops)
    /\ UNCHANGED <<authVars, wsVars, extVars>>

SpecValidate == Init /\ [][NextValidate]_vars

\* Single-op pushes with every stamp and kind on one key of one workspace:
\* LWW.
LwwWorkspaces == {"wsA"}
LwwStamps == {<<1, <<1>>>>, <<1, <<1, 1>>>>, <<2, <<1>>>>}

LwwOps ==
    {Op(id, "threads", kind, "t1", st[1], st[2], "dA", NoPayload) :
        id \in OpIds, kind \in {"put", "delete"}, st \in LwwStamps}

NextLww == PushOne(LwwWorkspaces, LwwOps) /\ UNCHANGED <<authVars, wsVars, extVars>>

SpecLww == Init /\ [][NextLww]_vars

\* Single-op pushes of puts and deletes on the same key in both workspaces:
\* isolation.
IsoStamps == {<<1, <<1>>>>, <<2, <<1>>>>}

IsoOps ==
    {Op(id, "threads", kind, "t1", st[1], st[2], "dA", NoPayload) :
        id \in OpIds, kind \in {"put", "delete"}, st \in IsoStamps}

NextIso == PushOne(Workspaces, IsoOps) /\ UNCHANGED <<authVars, wsVars, extVars>>

SpecIso == Init /\ [][NextIso]_vars

\* A backlog written in pushes of about BulkChunk ops until a workspace
\* holds about one delete batch of change-log rows, one device cursor
\* around the versions they get, both GCs, and a clock that moves once the
\* backlog is nearly complete: GC over more rows than one DELETE takes.
BulkChunk == 50
BulkWorkspaces == {"wsA"}
BulkCursorVersions == {BATCH_SIZE, BATCH_SIZE + 2}

\* The sizes of the next push: full chunks, then what brings the counter
\* to BATCH_SIZE - 1, BATCH_SIZE or BATCH_SIZE + 1.
BulkSizes(base) ==
    IF base + BulkChunk < BATCH_SIZE - 1 THEN {BulkChunk}
    ELSE {n \in {BATCH_SIZE - 1 - base, BATCH_SIZE - base, BATCH_SIZE + 1 - base} :
            n > 0}

\* Ops number first..last, each with its own op_id, all on one row; the
\* first chunk deletes, the others put.
BulkOps(first, last) ==
    [i \in 1..(last - first + 1) |->
        Op(ToString(first + i - 1), "threads",
           IF first = 1 THEN "delete" ELSE "put", "t1", 1, <<1>>, "dA", NoPayload)]

BulkPush ==
    \E w \in BulkWorkspaces :
        LET base == CounterValue(counter, w)
        IN \E n \in BulkSizes(base) :
              PushUpTo(w, BulkOps(base + 1, base + n), BATCH_SIZE + 1)

BulkTick ==
    /\ \E w \in BulkWorkspaces : CounterValue(counter, w) + BulkChunk >= BATCH_SIZE
    /\ Tick

NextGcBatch ==
    /\ \/ BulkPush
       \/ \E w \in BulkWorkspaces, v \in BulkCursorVersions :
             UpdateCursor(w, "dA", v) /\ UNCHANGED cursorCalls
       \/ GcTombstonesAny(BulkWorkspaces)
       \/ GcChangeLogAny(BulkWorkspaces)
       \/ BulkTick
    /\ UNCHANGED <<authVars, wsVars, extVars>>

SpecGcBatch == Init /\ [][NextGcBatch]_vars

\* The same backlog, cursor and clock, gcChangeLog calls that run to the
\* end and gcChangeLog calls whose first or second DELETE statement throws.
GcFailAts == {1, 2}
NextGcFail ==
    /\ \/ BulkPush
       \/ \E w \in BulkWorkspaces, v \in BulkCursorVersions :
             UpdateCursor(w, "dA", v) /\ UNCHANGED cursorCalls
       \/ GcChangeLogAny(BulkWorkspaces)
       \/ \E w \in BulkWorkspaces, r \in Retentions, k \in GcFailAts :
             GcChangeLogFails(w, r, k)
       \/ BulkTick
    /\ UNCHANGED <<authVars, wsVars, extVars>>

SpecGcFail == Init /\ [][NextGcFail]_vars

\* Single-op pushes, cursors, both GCs and the clock: retention.
GcWorkspaces == {"wsA"}
GcPushWorkspaces == Workspaces
GcCursorVersions == {0, 2}

GcOps ==
    {Op(k[1], "threads", k[2], "t1", 1, <<1>>, "dA", NoPayload) :
        k \in {<<"o1", "put">>, <<"o2", "delete">>}}

NextGc ==
    /\ \/ PushOne(GcPushWorkspaces, GcOps)
       \/ UpdateCursorAny(GcWorkspaces, GcCursorVersions)
       \/ GcTombstonesAny(GcWorkspaces)
       \/ GcChangeLogAny(GcWorkspaces)
       \/ Tick
    /\ UNCHANGED <<authVars, wsVars, extVars>>

SpecGc == Init /\ [][NextGc]_vars

\* Single-op pushes on two tables, with and without payload, and pulls.
PullOps ==
    {Op(id, t[1], "put", "t1", 1, <<1>>, "dA", t[2]) :
        id \in OpIds,
        t \in {<<"threads", NoPayload>>,
               <<"messages", [present |-> TRUE, obj |-> <<<<"title", "first">>>>]>>}}

NextPull ==
    /\ \/ PushOne(Workspaces, PullOps)
       \/ PullAny
    /\ UNCHANGED <<authVars, wsVars, extVars>>

SpecPull == Init /\ [][NextPull]_vars

\* updateCursor only, with the history of the versions passed.
NextCursor ==
    /\ \E w \in Workspaces, d \in Devices, v \in 0..MaxCursorVersion :
          /\ UpdateCursor(w, d, v)
          /\ cursorCalls' = cursorCalls \cup {<<w, d, v>>}
    /\ UNCHANGED <<authVars, wsVars, extVars>>

SpecCursor == Init /\ [][NextCursor]_vars

\* Concurrent getOrCreateUser callers.
NextAuth ==
    /\ \/ \E c \in Callers, p \in Providers, u \in ProviderUserIds, e \in Emails :
             GetOrCreateUserCall(c, [provider |-> p, providerUserId |-> u,
                                     email |-> e, displayName |-> SqlNull])
       \/ \E c \in Callers : GetOrCreateUserRun(c)
    /\ UNCHANGED <<syncVars, wsVars, extVars>>

SpecAuth == Init /\ [][NextAuth]_vars

\* Workspace store and admin access store, with the users made by
\* getOrCreateUser and by upsertMember.
WsCallers == {"c1"}
WsInputs ==
    {[provider |-> "clerk", providerUserId |-> "u1", email |-> "a@x.io",
      displayName |-> SqlNull]}
\* emailOrProviderId and provider of upsertMember ("" when not given).
WsLookups ==
    {<<TextLookup(" A@X.io "), "">>, <<TextLookup("u2"), "clerk">>}
        \cup {<<UserIdLookup(x.id), "">> : x \in users}

StoreOps ==
    \/ \E u \in {x.id : x \in users} : GetOrCreateDefaultWorkspace(u)
    \/ \E u \in {x.id : x \in users} : CreateWorkspace(u, "W", SqlNull)
    \/ \E u \in {x.id : x \in users}, w \in {x.id : x \in workspaces} :
          RemoveWorkspace(u, w)
    \/ \E u \in {x.id : x \in users}, w \in {x.id : x \in workspaces} :
          SetActiveWorkspace(u, w)

AdminOps ==
    \/ \E w \in {x.id : x \in workspaces}, l \in WsLookups, r \in Roles :
          UpsertMember(w, l[1], r, l[2])
    \/ \E w \in {x.id : x \in workspaces}, u \in {x.id : x \in users},
          r \in Roles : SetMemberRole(w, u, r)
    \/ \E w \in {x.id : x \in workspaces}, u \in {x.id : x \in users} :
          RemoveMember(w, u)
    \/ \E w \in {x.id : x \in workspaces} : SoftDeleteWorkspace(w, now)
    \/ \E w \in {x.id : x \in workspaces} : RestoreWorkspace(w)

NextWs ==
    /\ \/ /\ \/ \E c \in WsCallers, i \in WsInputs : GetOrCreateUserCall(c, i)
             \/ \E c \in WsCallers : GetOrCreateUserRun(c)
          /\ UNCHANGED wsVars
       \/ /\ \/ StoreOps
             \/ AdminOps
          /\ UNCHANGED <<authCalls, memberCalls, wsCalls>>
    /\ UNCHANGED <<syncVars, extVars>>

SpecWs == Init /\ [][NextWs]_vars

\* Workspace removal: one user made by getOrCreateUser, one made by
\* upsertMember, memberships made by upsertMember, and the workspace store.
RemoveCallers == {"c1"}
RemoveInputs ==
    [c1 |-> [provider |-> "clerk", providerUserId |-> "u1", email |-> SqlNull,
             displayName |-> SqlNull]]
RemoveLookups ==
    {<<TextLookup("u2"), "clerk">>} \cup {<<UserIdLookup(x.id), "">> : x \in users}

NextRemove ==
    /\ \/ /\ \/ \E c \in RemoveCallers : GetOrCreateUserCall(c, RemoveInputs[c])
             \/ \E c \in RemoveCallers : GetOrCreateUserRun(c)
          /\ UNCHANGED wsVars
       \/ /\ \/ StoreOps
             \/ \E w \in {x.id : x \in workspaces}, l \in RemoveLookups :
                   UpsertMember(w, l[1], "editor", l[2])
          /\ UNCHANGED <<authCalls, memberCalls, wsCalls>>
    /\ UNCHANGED <<syncVars, extVars>>

SpecRemove == Init /\ [][NextRemove]_vars

\* setActiveWorkspace against removeWorkspace: one user made by
\* getOrCreateUser, workspaces made by createWorkspace, and the two methods
\* run statement by statement by two callers.
RaceCallers == {"c1", "c2"}
NextRace ==
    /\ \/ /\ \/ \E c \in RemoveCallers : GetOrCreateUserCall(c, RemoveInputs[c])
             \/ \E c \in RemoveCallers : GetOrCreateUserRun(c)
          /\ UNCHANGED wsVars
       \/ /\ \E u \in {x.id : x \in users} : CreateWorkspace(u, "W", SqlNull)
          /\ UNCHANGED <<authCalls, memberCalls, wsCalls>>
       \/ /\ \/ \E c \in RaceCallers, u \in {x.id : x \in users},
                   w \in {x.id : x \in workspaces} :
                      \/ SetActiveWorkspaceSelect(c, u, w)
                      \/ RemoveWorkspaceSelect(c, u, w)
             \/ \E c \in RaceCallers : SetActiveWorkspaceUpdate(c)
             \/ \E c \in RaceCallers : RemoveWorkspaceRun(c)
          /\ UNCHANGED <<authCalls, memberCalls>>
    /\ UNCHANGED <<syncVars, extVars>>

SpecRace == Init /\ [][NextRace]_vars

\* Concurrent getOrCreateDefaultWorkspace calls of one user, statement by
\* statement.  Nothing removes a workspace.
NextDefault ==
    /\ \/ /\ \/ \E c \in RemoveCallers : GetOrCreateUserCall(c, RemoveInputs[c])
             \/ \E c \in RemoveCallers : GetOrCreateUserRun(c)
          /\ UNCHANGED wsVars
       \/ /\ \/ \E c \in Callers, u \in {x.id : x \in users} :
                   GetOrCreateDefaultWorkspaceSelect(c, u)
             \/ \E c \in Callers : GetOrCreateDefaultWorkspaceUpdate(c)
             \/ \E c \in Callers : GetOrCreateDefaultWorkspaceCreate(c)
          /\ UNCHANGED <<authCalls, memberCalls>>
    /\ UNCHANGED <<syncVars, extVars>>

SpecDefault == Init /\ [][NextDefault]_vars

\* Roles: one user made by getOrCreateUser, a second one made and given
\* every role in turn by upsertMember, up to two workspaces, and the
\* workspace store's create, update, remove and set-active calls.
RoleWorkspaceIds == {"1", "2"}

RoleOps ==
    \/ \E u \in {x.id : x \in users} :
          /\ NewWorkspaceId(workspaces) \in RoleWorkspaceIds
          /\ CreateWorkspace(u, "W", SqlNull)
    \/ \E u \in {x.id : x \in users}, w \in {x.id : x \in workspaces} :
          UpdateWorkspace(u, w, "R", SqlNull)
    \/ \E u \in {x.id : x \in users}, w \in {x.id : x \in workspaces} :
          RemoveWorkspace(u, w)
    \/ \E u \in {x.id : x \in users}, w \in {x.id : x \in workspaces} :
          SetActiveWorkspace(u, w)
    \/ \E w \in {x.id : x \in workspaces}, r \in WorkspaceRoles :
          UpsertMember(w, TextLookup("u2"), r, "clerk")

NextRoles ==
    /\ \/ /\ \/ \E c \in RemoveCallers : GetOrCreateUserCall(c, RemoveInputs[c])
             \/ \E c \in RemoveCallers : GetOrCreateUserRun(c)
          /\ UNCHANGED wsVars
       \/ RoleOps /\ UNCHANGED <<authCalls, memberCalls, wsCalls>>
    /\ UNCHANGED <<syncVars, extVars>>

SpecRoles == Init /\ [][NextRoles]_vars

\* Concurrent member upserts: one user made by getOrCreateUser creates one
\* workspace and may remove it; two callers upsert the same e-mail address
\* or the same provider id into it, with different roles, statement by
\* statement.
UpsertCallers == {"c1", "c2"}
UpsertRole == [c1 |-> "editor", c2 |-> "viewer"]
UpsertLookups == {<<TextLookup(" A@X.io "), "">>, <<TextLookup("u2"), "clerk">>}

NextUpsert ==
    /\ \/ /\ \/ \E c \in RemoveCallers : GetOrCreateUserCall(c, RemoveInputs[c])
             \/ \E c \in RemoveCallers : GetOrCreateUserRun(c)
          /\ UNCHANGED wsVars
       \/ /\ \/ \E u \in {x.id : x \in users} :
                   /\ workspaces = {}
                   /\ CreateWorkspace(u, "W", SqlNull)
             \/ \E u \in {x.id : x \in users}, w \in {x.id : x \in workspaces} :
                   RemoveWorkspace(u, w)
          /\ UNCHANGED <<authCalls, memberCalls, wsCalls>>
       \/ /\ \E c \in UpsertCallers :
                \/ \E w \in {x.id : x \in workspaces}, l \in UpsertLookups :
                      UpsertMemberSelectWorkspace(c, w, l[1], UpsertRole[c], l[2])
                \/ UpsertMemberSelect(c)
                \/ UpsertMemberSelectById(c)
                \/ UpsertMemberInsertUser(c)
                \/ UpsertMemberInsertAccount(c)
                \/ UpsertMemberUpsertRow(c)
          /\ UNCHANGED <<authCalls, wsCalls>>
    /\ UNCHANGED <<syncVars, extVars>>

SpecUpsert == Init /\ [][NextUpsert]_vars

\* Workspace lifecycle: up to two default workspaces made by
\* getOrCreateDefaultWorkspace, a second user made an editor by
\* upsertMember, soft deletion by the owner and by the admin store,
\* restoration, and the membership-facing calls.
LifecycleOps ==
    \/ \E u \in {x.id : x \in users} :
          /\ \/ LiveMemberships(workspaces, workspaceMembers, u) # {}
             \/ NewWorkspaceId(workspaces) \in RoleWorkspaceIds
          /\ GetOrCreateDefaultWorkspace(u)
    \/ \E u \in {x.id : x \in users} : ListUserWorkspaces(u)
    \/ \E u \in {x.id : x \in users}, w \in {x.id : x \in workspaces} :
          UpdateWorkspace(u, w, "R", SqlNull)
    \/ \E u \in {x.id : x \in users}, w \in {x.id : x \in workspaces} :
          SetActiveWorkspace(u, w)
    \/ \E u \in {x.id : x \in users}, w \in {x.id : x \in workspaces} :
          RemoveWorkspace(u, w)
    \/ \E w \in {x.id : x \in workspaces} : SoftDeleteWorkspace(w, now)
    \/ \E w \in {x.id : x \in workspaces} : RestoreWorkspace(w)
    \/ \E w \in {x.id : x \in workspaces} :
          UpsertMember(w, TextLookup("u2"), "editor", "clerk")

NextLifecycle ==
    /\ \/ /\ \/ \E c \in RemoveCallers : GetOrCreateUserCall(c, RemoveInputs[c])
             \/ \E c \in RemoveCallers : GetOrCreateUserRun(c)
          /\ UNCHANGED wsVars
       \/ LifecycleOps /\ UNCHANGED <<authCalls, memberCalls, wsCalls>>
    /\ UNCHANGED <<syncVars, extVars>>

SpecLifecycle == Init /\ [][NextLifecycle]_vars

\* Opening the database: every combination of the option and of the five
\* environment variables, and closing it again.
DbOptionPaths == {Undefined, ":memory:"}
DbEnvs ==
    [NODE_ENV : {"test", "production"},
     VITEST : {Undefined, "true"},
     OR3_SQLITE_ALLOW_IN_MEMORY : {Undefined, " YES ", "0"},
     OR3_SQLITE_STRICT : {Undefined, "1", "false"},
     OR3_SQLITE_DB_PATH : {Undefined, "", "/data/or3.db"}]

NextDb ==
    /\ \/ \E o \in DbOptionPaths, e \in DbEnvs : GetSqliteDb(o, e)
       \/ DestroySqliteDb
    /\ UNCHANGED <<syncVars, authVars, wsVars>>

SpecDb == Init /\ [][NextDb]_vars

\* Invites: one user made by getOrCreateUser owns one workspace and invites
\* an e-mail address, with a time to live of one or two ticks; the invites
\* are listed, revoked and consumed, with the right and with a wrong token,
\* while the clock advances.
InviteTtls == {1, 2}
InviteTokens == {"h1", "h2"}

InviteOps ==
    \/ \E w \in {x.id : x \in workspaces}, u \in {x.id : x \in users},
          ttl \in InviteTtls :
          CreateInvite(w, " A@X.io ", "editor", u, "h1", ttl)
    \/ \E w \in {x.id : x \in workspaces} : ListInvites(w)
    \/ \E w \in {x.id : x \in workspaces}, i \in {x.id : x \in invites} :
          RevokeInvite(w, i)
    \/ \E w \in {x.id : x \in workspaces}, u \in {x.id : x \in users},
          h \in InviteTokens :
          ConsumeInvite(w, "A@X.io", h, u)

NextInvite ==
    \/ /\ \/ \E c \in RemoveCallers : GetOrCreateUserCall(c, RemoveInputs[c])
          \/ \E c \in RemoveCallers : GetOrCreateUserRun(c)
       /\ UNCHANGED <<syncVars, wsVars, extVars>>
    \/ /\ \E u \in {x.id : x \in users} :
            /\ workspaces = {}
            /\ CreateWorkspace(u, "W", SqlNull)
       /\ UNCHANGED <<syncVars, authCalls, memberCalls, wsCalls, extVars>>
    \/ /\ Tick
       /\ UNCHANGED <<authVars, wsVars, extVars>>
    \/ /\ InviteOps
       /\ UNCHANGED <<syncVars, authAccounts, uidCounter, authCalls, workspaces,
                      wsResp, memberCalls, wsCalls, db>>

SpecInvite == Init /\ [][NextInvite]_vars

\* Duplicates inside a batch: two op_ids, each written three ways (a put, a
\* delete of the same row with a later stamp from another device, a put on
\* another table and row with a payload), pushed in batches of two
\* and three ops into one workspace.
DupWorkspaces == {"wsA"}
DupOpIds == {"o1", "o2"}

DupVariants(id) ==
    {Op(id, "threads", "put", "t1", 1, <<1>>, "dA", NoPayload),
     Op(id, "threads", "delete", "t1", 2, <<2>>, "dB", NoPayload),
     Op(id, "messages", "put", "t2", 1, <<1>>, "dA",
        [present |-> TRUE, obj |-> <<<<"title", "dup">>>>])}

DupOps == UNION {DupVariants(id) : id \in DupOpIds}

DupBatches ==
    {<<a, b>> : a \in DupOps, b \in DupOps}
    \cup {<<a, b, c>> : a \in DupOps, b \in DupOps, c \in DupOps}

NextDup ==
    /\ \E w \in DupWorkspaces, ops \in DupBatches : Push(w, ops)
    /\ UNCHANGED <<authVars, wsVars, extVars>>

SpecDup == Init /\ [][NextDup]_vars

\* Single-op pushes on one key by three op_ids, each with its own device
\* and payload, as put or delete with three stamps, while the clock
\* advances: what a losing op leaves of the row.
RowPayload ==
    [o1 |-> NoPayload,
     o2 |-> [present |-> TRUE, obj |-> <<<<"title", "second">>>>],
     o3 |-> [present |-> TRUE, obj |-> <<<<"title", "third">>>>]]
RowDevice == [o1 |-> "dA", o2 |-> "dB", o3 |-> "dA"]

RowOps ==
    {Op(id, "threads", kind, "t1", st[1], st[2], RowDevice[id], RowPayload[id]) :
        id \in OpIds, kind \in {"put", "delete"}, st \in LwwStamps}

NextRow ==
    /\ \/ PushOne(LwwWorkspaces, RowOps)
       \/ Tick
    /\ UNCHANGED <<authVars, wsVars, extVars>>

SpecRow == Init /\ [][NextRow]_vars

\* Orders of the same ops: three ops on one key with pairwise distinct
\* (clock, hlc), each with its own payload, pushed one by one as put or
\* delete into two workspaces under different op_ids, in any order in
\* each.  The clock does not advance.
ConvStamps == <<<<1, <<1>>>>, <<1, <<1, 1>>>>, <<2, <<1>>>>>>
ConvDevice == <<"dA", "dB", "dA">>
ConvPayload ==
    <<NoPayload,
      [present |-> TRUE, obj |-> <<<<"title", "second">>>>],
      [present |-> TRUE, obj |-> <<<<"title", "third">>>>]>>
ConvOpId == [wsA |-> <<"o1", "o2", "o3">>, wsB |-> <<"p1", "p2", "p3">>]
ConvOp(w, i, kind) ==
    Op(ConvOpId[w][i], "threads", kind, "t1", ConvStamps[i][1], ConvStamps[i][2],
       ConvDevice[i], ConvPayload[i])

NextConv ==
    /\ \E w \in Workspaces, i \in DOMAIN ConvStamps, kind \in {"put", "delete"} :
          Push(w, <<ConvOp(w, i, kind)>>)
    /\ UNCHANGED <<authVars, wsVars, extVars>>

SpecConv == Init /\ [][NextConv]_vars

\* Failing statements: puts and deletes of one row by two op_ids, and a
\* put by a third op_id whose pk is null, which the NOT NULL of
\* change_log.pk rejects; batches of one and two ops into one workspace.
AtomicOps ==
    {Op(id, "threads", kind, "t1", 1, <<1>>, "dA", NoPayload) :
        id \in {"o1", "o2"}, kind \in {"put", "delete"}}
    \cup {Op("o3", "threads", "put", SqlNull, 1, <<1>>, "dA", NoPayload)}

AtomicBatches ==
    {<<a>> : a \in AtomicOps} \cup {<<a, b>> : a \in AtomicOps, b \in AtomicOps}

NextAtomic ==
    /\ \/ \E ops \in AtomicBatches : Push("wsA", ops)
       \/ \E c \in 0..MaxCounter, l \in 1..MaxLimit : Pull("wsA", c, l, {})
    /\ UNCHANGED <<authVars, wsVars, extVars>>

SpecAtomic == Init /\ [][NextAtomic]_vars

----------------------------------------------------------------------------
(* Properties *)

\* counter(w).value, 0 for a workspace without a counter row.
CounterOf(w) ==
    IF \E r \in counter : r.workspace_id = w
    THEN (CHOOSE r \in counter : r.workspace_id = w).value
    ELSE 0

VersionsOf(rows, w) == {r.server_version : r \in {x \in rows : x.workspace_id = w}}

RowsWithOpId(rows, id) == {r \in rows : r.op_id = id}

\* C1: the server_versions given to the ops ever accepted in workspace w
\* are exactly 1..counter(w), without a gap; no version is given to two
\* distinct op_ids; and every success result of a push names the version
\* of the committed row of its op_id.
C1_VersionsAreOneToCounter ==
    /\ \A w \in Workspaces :
          /\ VersionsOf(committed, w) = 1..CounterOf(w)
          /\ \A r1, r2 \in committed :
                (/\ r1.workspace_id = w
                 /\ r2.workspace_id = w
                 /\ r1.server_version = r2.server_version) => r1.op_id = r2.op_id
    /\ resp.kind = "push" =>
          \A i \in DOMAIN resp.results :
             resp.results[i].success =>
                \E r \in RowsWithOpId(committed, resp.results[i].opId) :
                   r.server_version = resp.results[i].serverVersion

\* C1 witness: a batch of a replayed op and a new op, after two earlier
\* pushes: the replay reports 1, the new op takes 3 and the counter is 3.
C1_Witness ==
    /\ resp.kind = "push"
    /\ Len(resp.results) = 2
    /\ resp.results[1].success /\ resp.results[1].serverVersion = 1
    /\ resp.results[2].success /\ resp.results[2].serverVersion = 3
    /\ CounterOf(resp.workspace) = 3

\* The part of C2 that is checked on the response of a push: the push did
\* not fail and every op in it is reported as a success.
PushAllSucceeded ==
    /\ ~resp.threw
    /\ \A i \in DOMAIN resp.results : resp.results[i].success

C2_RowAndResult ==
    /\ \A id \in OpIds : Cardinality(RowsWithOpId(changeLog, id)) <= 1
    /\ resp.kind = "push" =>
          /\ PushAllSucceeded
          /\ \A i \in DOMAIN resp.results :
                \E r \in RowsWithOpId(changeLog, resp.results[i].opId) :
                   r.server_version = resp.results[i].serverVersion

C2_ReplayStep ==
    resp'.kind = "push" =>
       \A i \in DOMAIN resp'.results :
          \A r \in RowsWithOpId(changeLog, resp'.results[i].opId) :
             /\ r \in changeLog'
             /\ r.server_version = resp'.results[i].serverVersion

PushedKeys == {<<r.workspace_id, r.table_name, r.pk>> : r \in committed}

\* The ops committed for a key.
KeyOps(k) ==
    {r \in committed : r.workspace_id = k[1] /\ r.table_name = k[2] /\ r.pk = k[3]}

\* The materialized rows of a key.
KeyRows(k) ==
    {m \in materialized :
        m.table = SYNCED_TABLE_MAP[k[2]] /\ m.workspace_id = k[1] /\ m.id = k[3]}

\* The tombstone rows of a key.
KeyTombstones(k) ==
    {t \in tombstones : t.workspace_id = k[1] /\ t.table_name = k[2] /\ t.pk = k[3]}

\* (clock, hlc) of a is lexicographically greater than that of b.
StampGreater(a, b) ==
    \/ a.clock > b.clock
    \/ a.clock = b.clock /\ StrGreater(a.hlc, b.hlc)

\* The ops whose (clock, hlc) is the maximum over ops.
MaxOps(ops) == {m \in ops : \A q \in ops : ~StampGreater(q, m)}

\* Among the ops at the maximum, the one committed first.
FirstMaxOp(ops) ==
    CHOOSE m \in MaxOps(ops) : \A q \in MaxOps(ops) : m.server_version <= q.server_version

DeletedFlag(r) == IF r.op = "delete" THEN 1 ELSE 0

\* C3 as stated: for every pushed key there is one materialized row, its
\* (clock, hlc) is the lexicographic maximum over the key's ops and its
\* deleted flag is the kind of the op at that maximum, whichever order the
\* ops came in (so of every op at the maximum).
C3_Original ==
    \A k \in PushedKeys :
       /\ Cardinality(KeyRows(k)) = 1
       /\ \A row \in KeyRows(k), m \in MaxOps(KeyOps(k)) :
             /\ row.clock = m.clock
             /\ row.hlc = m.hlc
             /\ row.deleted = DeletedFlag(m)

\* C3, amended: for every pushed key there is one materialized row, its
\* (clock, hlc) is the lexicographic maximum over the key's ops, and its
\* deleted flag is the kind of the first-committed op among those that
\* carry that maximum.
C3_RowIsFirstMaxOp ==
    \A k \in PushedKeys :
       /\ Cardinality(KeyRows(k)) = 1
       /\ \A row \in KeyRows(k) :
             /\ \A m \in MaxOps(KeyOps(k)) : row.clock = m.clock /\ row.hlc = m.hlc
             /\ row.deleted = DeletedFlag(FirstMaxOp(KeyOps(k)))

\* C3 witness: three ops on a key, a put and a delete tie at the maximum
\* and the third op is below it.
C3_Witness ==
    \E k \in PushedKeys :
       /\ Cardinality(KeyOps(k)) = 3
       /\ \E a, b \in MaxOps(KeyOps(k)) : a.op = "put" /\ b.op = "delete"
       /\ \E c \in KeyOps(k) : c \notin MaxOps(KeyOps(k))
       /\ KeyRows(k) # {}

\* C4 as stated: a tombstone exists for a key iff the winning change of
\* the key is a delete.  With a tie at the maximum the statement is read
\* in its weakest form: a tombstone implies that some op at the maximum is
\* a delete, and when every op at the maximum is a delete a tombstone
\* exists.
C4_Original ==
    \A k \in PushedKeys :
       /\ KeyTombstones(k) # {} => \E m \in MaxOps(KeyOps(k)) : m.op = "delete"
       /\ (\A m \in MaxOps(KeyOps(k)) : m.op = "delete") => KeyTombstones(k) # {}

\* C4, amended: after any sequence of pushes a key has exactly one
\* tombstone row when at least one delete op was accepted for it, whether
\* or not that delete is the winning change, and none otherwise; the
\* tombstone's clock is the greatest clock among the key's deletes.
C4_TombstoneIffDeleteAccepted ==
    \A k \in PushedKeys :
       LET deletes == {r \in KeyOps(k) : r.op = "delete"}
       IN /\ Cardinality(KeyTombstones(k)) = (IF deletes # {} THEN 1 ELSE 0)
          /\ \A t \in KeyTombstones(k) : t.clock = Max({r.clock : r \in deletes})

\* C4 witness: a key whose winning change is a put (the materialized row
\* is live) and that still has its tombstone.
C4_Witness ==
    \E k \in PushedKeys :
       /\ KeyTombstones(k) # {}
       /\ \A m \in MaxOps(KeyOps(k)) : m.op = "put"
       /\ \E row \in KeyRows(k) : row.deleted = 0

\* What a workspace owns in the sync tables.
WorkspaceState(w) ==
    <<{r \in counter : r.workspace_id = w},
      {r \in changeLog : r.workspace_id = w},
      {m \in materialized : m.workspace_id = w},
      {t \in tombstones : t.workspace_id = w}>>

C7_IndependentRows ==
    /\ resp.kind = "push" => PushAllSucceeded
    /\ \A k \in PushedKeys :
          /\ Cardinality(KeyRows(k)) = 1
          /\ \A row \in KeyRows(k) :
                \E r \in KeyOps(k) : row.clock = r.clock /\ row.hlc = r.hlc

C7_PushFrame ==
    resp'.kind = "push" =>
       \A w \in Workspaces \ {resp'.workspace} : WorkspaceState(w)' = WorkspaceState(w)

\* C7: pushes of the same (table, pk) under different workspaces all
\* succeed, each workspace gets its own materialized row whose stamp comes
\* from an op of that workspace, and a push to one workspace leaves the
\* counter, change-log rows, materialized rows and tombstones of every
\* other workspace as they were.
C7_WorkspaceIsolation == []C7_IndependentRows /\ [][C7_PushFrame]_vars

\* C7 witness: the same (table, pk) has a row in both workspaces, with
\* different stamps and different deleted flags.
C7_Witness ==
    \E m1, m2 \in materialized :
       /\ m1.workspace_id = "wsA" /\ m2.workspace_id = "wsB"
       /\ m1.table = m2.table /\ m1.id = m2.id
       /\ m1.clock # m2.clock
       /\ m1.deleted # m2.deleted

\* The committed changes of workspace w above cursor c, as pull returns them.
ChangesAbove(w, c) ==
    {ToSyncChange(r) : r \in {x \in committed : x.workspace_id = w /\ x.server_version > c}}

RECURSIVE PullUntilDone(_, _, _, _)
\* What a device collects by pulling from a cursor, page after page, until
\* hasMore is false.
PullUntilDone(log, w, cursor, limit) ==
    LET out == PullResponse(log, w, cursor, limit, {})
    IN {out.changes[i] : i \in DOMAIN out.changes}
       \cup (IF out.hasMore THEN PullUntilDone(log, w, out.nextCursor, limit) ELSE {})

\* C5 as stated: for every cursor row (w, d, c), every change ever
\* committed to w with server_version > c is still in the change-log.
C5_Original ==
    \A c \in cursors :
       \A r \in committed :
          (r.workspace_id = c.workspace_id /\ r.server_version > c.last_seen_version)
             => r \in changeLog

\* C5, amended: for every device that had its cursor row at every
\* gcChangeLog run that deleted rows of its workspace, every change ever
\* committed to the workspace with server_version > c is still in the
\* change-log, and pulling from c until hasMore is false returns exactly
\* those changes.
C5_NoStarvationOfRegisteredDevices ==
    \A c \in cursors :
       <<c.workspace_id, c.device_id>> \notin gcMissed =>
          /\ \A r \in committed :
                (/\ r.workspace_id = c.workspace_id
                 /\ r.server_version > c.last_seen_version) => r \in changeLog
          /\ PullUntilDone(changeLog, c.workspace_id, c.last_seen_version, 1)
                = ChangesAbove(c.workspace_id, c.last_seen_version)

\* C5 witness: gcChangeLog has deleted rows of a workspace in which a
\* device holds a cursor, and changes above that cursor are in the log.
C5_Witness ==
    \E c \in cursors :
       /\ <<c.workspace_id, c.device_id>> \notin gcMissed
       /\ \E r \in committed : r.workspace_id = c.workspace_id /\ r \notin changeLog
       /\ \E r \in changeLog :
             r.workspace_id = c.workspace_id /\ r.server_version > c.last_seen_version

\* C6 as stated: the server_versions of the change-log rows of w are
\* exactly 1..counter(w).
C6_Original ==
    \A w \in Workspaces : VersionsOf(changeLog, w) = 1..CounterOf(w)

\* C6, amended: the server_versions of the change-log rows of w are
\* pairwise distinct and lie in 1..counter(w); the versions missing from
\* 1..counter(w) are exactly those of rows that gcChangeLog has deleted, so
\* the sequence is dense as long as gcChangeLog has deleted nothing of w.
C6_DenseUpToGc ==
    \A w \in Workspaces :
       LET logged == {r \in changeLog : r.workspace_id = w}
           removed == {r \in committed \ changeLog : r.workspace_id = w}
       IN /\ \A r1, r2 \in logged : r1.server_version = r2.server_version => r1 = r2
          /\ VersionsOf(logged, w) \subseteq 1..CounterOf(w)
          /\ (1..CounterOf(w)) \ VersionsOf(logged, w) = VersionsOf(removed, w)
          /\ removed = {} => VersionsOf(logged, w) = 1..CounterOf(w)

\* C6 witness: a workspace whose change-log has lost its first row to
\* gcChangeLog and still holds later ones.
C6_Witness ==
    \E w \in Workspaces :
       /\ 1 \notin VersionsOf(changeLog, w)
       /\ VersionsOf(changeLog, w) # {}

\* The versions passed to updateCursor so far for (w, d).
CalledVersions(w, d) == {x[3] : x \in {y \in cursorCalls : y[1] = w /\ y[2] = d}}

CursorRows(cur, w, d) == {c \in cur : c.workspace_id = w /\ c.device_id = d}

C8_CursorIsMax ==
    \A w \in Workspaces, d \in Devices :
       IF CalledVersions(w, d) = {}
       THEN CursorRows(cursors, w, d) = {}
       ELSE /\ Cardinality(CursorRows(cursors, w, d)) = 1
            /\ \A c \in CursorRows(cursors, w, d) :
                  c.last_seen_version = Max(CalledVersions(w, d))

C8_CursorStep ==
    \A c \in cursors :
       /\ \E c2 \in CursorRows(cursors', c.workspace_id, c.device_id) :
             c2.last_seen_version >= c.last_seen_version
       /\ (resp'.kind = "updateCursor"
           /\ ~(c.workspace_id = resp'.workspace /\ c.device_id = resp'.deviceId))
             => c \in cursors'

\* C8: for every (workspace, device) the persisted last_seen_version is
\* the maximum of the versions passed to updateCursor for it (one row, and
\* no row before the first call); no step lowers a persisted version, and
\* an updateCursor call leaves the rows of every other (workspace, device)
\* as they were.
C8_CursorForwardOnly == []C8_CursorIsMax /\ [][C8_CursorStep]_vars

\* C8 witness: a device was given 2, then a lower version, and keeps 2,
\* while another device of the same workspace holds a lower cursor.
C8_Witness ==
    /\ CalledVersions("wsA", "dA") = {0, 1, 2}
    /\ resp.kind = "updateCursor" /\ resp.workspace = "wsA"
    /\ resp.deviceId = "dA" /\ resp.version = 1
    /\ \E c \in CursorRows(cursors, "wsA", "dA") : c.last_seen_version = 2
    /\ \E c \in CursorRows(cursors, "wsA", "dB") : c.last_seen_version = 1

\* C9: the changes of a pull are strictly ascending by server_version, all
\* above the cursor, each the change of a change-log row of the requested
\* workspace, and all of a table of the filter when a filter is given.
C9_PullOrderedAboveCursor ==
    resp.kind = "pull" =>
       LET ch == resp.out.changes
       IN /\ \A i, j \in DOMAIN ch : i < j => ch[i].serverVersion < ch[j].serverVersion
          /\ \A i \in DOMAIN ch :
                /\ ch[i].serverVersion > resp.cursor
                /\ resp.tables # {} => ch[i].tableName \in resp.tables
                /\ \E r \in changeLog :
                      /\ r.workspace_id = resp.workspace
                      /\ r.op_id = ch[i].stamp.opId
                      /\ r.server_version = ch[i].serverVersion
                      /\ r.table_name = ch[i].tableName

\* C9 witness: a filtered pull from cursor 1 that returns two changes and
\* leaves out the row at version 1.
C9_Witness ==
    /\ resp.kind = "pull"
    /\ resp.cursor = 1
    /\ resp.tables # {}
    /\ Len(resp.out.changes) = 2
    /\ \E r \in changeLog : r.workspace_id = resp.workspace /\ r.server_version = 1

\* The callers whose getOrCreateUser has returned.
Returned == {c \in Callers : authCalls[c].pc = "returned"}

CallIdentity(c) == <<authCalls[c].input.provider, authCalls[c].input.providerUserId>>

\* C10: no call fails; callers with the same (provider, provider_user_id)
\* receive the same user_id and callers with different identities receive
\* different ones; for the identity of every returned call there is exactly
\* one auth_accounts row, it points to the returned user_id, and exactly one
\* users row has that id; and no users row is left without an account.
C10_GetOrCreateUserIdempotent ==
    /\ \A c \in Callers : authCalls[c].pc # "failed"
    /\ \A c1, c2 \in Returned :
          (CallIdentity(c1) = CallIdentity(c2))
             <=> (authCalls[c1].userId = authCalls[c2].userId)
    /\ \A c \in Returned :
          LET accounts == {a \in authAccounts :
                              <<a.provider, a.provider_user_id>> = CallIdentity(c)}
          IN /\ Cardinality(accounts) = 1
             /\ \A a \in accounts : a.user_id = authCalls[c].userId
             /\ Cardinality({u \in users : u.id = authCalls[c].userId}) = 1
    /\ \A u \in users : \E a \in authAccounts : a.user_id = u.id
    /\ Cardinality(users) = Cardinality(authAccounts)

\* C10 witness: three calls have returned, two of them for the same
\* identity and with different e-mails, the third for another identity of
\* the same provider; two users exist.
C10_Witness ==
    /\ Returned = Callers
    /\ CallIdentity("c1") = CallIdentity("c2")
    /\ CallIdentity("c3") # CallIdentity("c1")
    /\ CallIdentity("c3")[1] = CallIdentity("c1")[1]
    /\ authCalls["c1"].input.email # authCalls["c2"].input.email
    /\ Cardinality(users) = 2

----------------------------------------------------------------------------
(* Workspace store properties *)

\* The users whose active_workspace_id is w.
PointingAt(usr, w) == {u \in usr : u.active_workspace_id = w}

\* C11 (as stated): in every state reachable by the workspace-store and
\* admin operations, each user's active_workspace_id is null or references
\* a non-deleted workspace of which the user is currently a member.
C11_ActivePointerValid ==
    \A u \in users :
        \/ u.active_workspace_id = SqlNull
        \/ /\ \E w \in workspaces :
                 w.id = u.active_workspace_id /\ w.deleted = 0
           /\ \E m \in workspaceMembers :
                 m.workspace_id = u.active_workspace_id /\ m.user_id = u.id

\* The non-deleted workspaces other than w that user u is a member of.
OtherLiveWorkspaces(ws, mem, u, w) ==
    {x.id : x \in {y \in ws :
        /\ y.deleted = 0
        /\ y.id # w
        /\ \E m \in mem : m.workspace_id = y.id /\ m.user_id = u}}

\* C12: when removeWorkspace soft-deletes a workspace, the same step
\* re-homes every user whose active_workspace_id pointed at it (not only
\* the caller) to another non-deleted workspace the user belongs to, or to
\* null when there is none; the other users keep their pointer, and no
\* state in which the call has returned shows a pointer at the workspace.
C12_RemoveRehomesEveryUser ==
    [][(wsResp'.kind = "removeWorkspace" /\ ~wsResp'.threw) =>
         LET w == wsResp'.workspaceId
         IN /\ \E x \in workspaces' : x.id = w /\ x.deleted = 1
            /\ PointingAt(users', w) = {}
            /\ \A u \in users :
                  IF u.active_workspace_id = w
                  THEN \E v \in users' :
                         /\ v = [u EXCEPT !.active_workspace_id =
                                                v.active_workspace_id]
                         /\ LET other == OtherLiveWorkspaces(workspaces',
                                            workspaceMembers', u.id, w)
                            IN IF other = {}
                               THEN v.active_workspace_id = SqlNull
                               ELSE v.active_workspace_id \in other
                  ELSE u \in users']_vars

\* C12 witness: a removeWorkspace has returned after re-homing two users,
\* one to another workspace and one, who is not the caller, to null.
C12_Witness ==
    /\ wsResp.kind = "removeWorkspace"
    /\ ~wsResp.threw
    /\ Cardinality(wsResp.rehomed) = 2
    /\ \E u \in users, v \in users :
          /\ {u.id, v.id} = wsResp.rehomed
          /\ u.active_workspace_id \notin {SqlNull, wsResp.workspaceId}
          /\ v.active_workspace_id = SqlNull
          /\ v.id # wsResp.userId

----------------------------------------------------------------------------
(* Push laws *)

\* The tables a transaction leaves: counter, change-log, materialized rows,
\* tombstones.
TxState(tx) == <<tx.cnt, tx.log, tx.mat, tx.tomb>>

\* From the current state, push(op) to w followed one second later by
\* push(op) again leaves the tables push(op) alone leaves, and the second
\* call reports success with the version of the op's row.
C13_PushTwiceLaw ==
    \A w \in LwwWorkspaces, op \in LwwOps :
        LET once == RunTx(counter, changeLog, materialized, tombstones, w,
                          <<op>>, now)
            twice == RunTx(once.cnt, once.log, once.mat, once.tomb, w, <<op>>,
                           now + 1)
        IN ~once.threw =>
              /\ ~twice.threw
              /\ TxState(twice) = TxState(once)
              /\ Len(twice.results) = 1
              /\ twice.results[1].success
              /\ \E r \in RowsWithOpId(once.log, op.opId) :
                    twice.results[1].serverVersion = r.server_version

\* A push whose ops all have their row in the change-log of the pushed
\* workspace changes no table.
C13_ReplayStep ==
    (/\ resp'.kind = "push"
     /\ Len(resp'.results) > 0
     /\ \A i \in DOMAIN resp'.results :
           \E r \in RowsWithOpId(changeLog, resp'.results[i].opId) :
              r.workspace_id = resp'.workspace)
    => UNCHANGED <<counter, changeLog, materialized, tombstones>>

\* C13: pushing the same op twice leaves the counter, the change-log, the
\* materialized rows and the tombstones exactly as a single push leaves
\* them; nothing but the response of the second call can differ.
C13_PushTwiceIsPushOnce == []C13_PushTwiceLaw /\ [][C13_ReplayStep]_vars

\* C13 witness: the last push was a retransmission of a delete whose row,
\* tombstone and materialized row are in place, after a later push had
\* moved the counter on.
C13_Witness ==
    /\ resp.kind = "push"
    /\ Len(resp.results) = 1
    /\ \E r \in RowsWithOpId(changeLog, resp.results[1].opId) :
          /\ r.op = "delete"
          /\ r.server_version = resp.results[1].serverVersion
          /\ r.server_version < resp.serverVersion
          /\ KeyTombstones(<<r.workspace_id, r.table_name, r.pk>>) # {}
          /\ KeyRows(<<r.workspace_id, r.table_name, r.pk>>) # {}

\* The op_ids a push response reports on.
ResultOpIds(r) == {r.results[i].opId : i \in DOMAIN r.results}

\* The step is a push of a non-empty batch that passed validation and
\* committed.
ValidPushStep ==
    /\ resp'.kind = "push"
    /\ ~resp'.threw
    /\ Len(resp'.results) > 0
    /\ \A i \in DOMAIN resp'.results : resp'.results[i].success

\* C14: a non-empty push batch that passes validation increases counter(w)
\* by exactly the number of distinct op_ids of the batch that were not in
\* the change-log, and the response's server_version is the new counter
\* value.
C14_CounterGrowsByDistinctNew ==
    [][ValidPushStep =>
          LET w == resp'.workspace
              before == CounterOf(w)
              distinctNew == ResultOpIds(resp') \ {r.op_id : r \in changeLog}
          IN /\ \E c \in counter' :
                   /\ c.workspace_id = w
                   /\ c.value = before + Cardinality(distinctNew)
                   /\ resp'.serverVersion = c.value
             /\ Cardinality({c \in counter' : c.workspace_id = w}) = 1]_vars

\* C14 witness: a batch that names one new op_id twice took one version:
\* both results report 2 and the counter is 2.
C14_Witness ==
    /\ resp.kind = "push"
    /\ Len(resp.results) = 2
    /\ resp.results[1].opId = resp.results[2].opId
    /\ resp.results[1].success /\ resp.results[1].serverVersion = 2
    /\ resp.results[2].success /\ resp.results[2].serverVersion = 2
    /\ resp.serverVersion = 2
    /\ CounterOf(resp.workspace) = 2

RECURSIVE BatchesReportedBy(_, _)
\* The batches of gateway ops that a push response can be the answer to:
\* the i-th op has the op_id of the i-th result.
BatchesReportedBy(results, i) ==
    IF i > Len(results) THEN {<<>>}
    ELSE {<<o>> \o rest :
             o \in {x \in GatewayOps : x.opId = results[i].opId},
             rest \in BatchesReportedBy(results, i + 1)}

\* C15: when any op of a batch names a table outside the allowlist (here
\* the table "bogus"), every result of the push (also those of ops with
\* valid tables or committed op_ids) has success = false and error_code =
\* VALIDATION_ERROR, and the counter, change-log, materialized tables and
\* tombstones are unchanged.
C15_InvalidTableRejectsBatch ==
    [][resp'.kind = "push" =>
         \A ops \in BatchesReportedBy(resp'.results, 1) :
            (/\ \E i \in 1..Len(ops) : ops[i].tableName = "bogus"
             /\ Push(resp'.workspace, ops)) =>
               /\ \A i \in 1..Len(ops) :
                     /\ ~resp'.results[i].success
                     /\ resp'.results[i].errorCode = "VALIDATION_ERROR"
               /\ UNCHANGED <<counter, changeLog, materialized, tombstones>>]_vars

\* C15 witness: a rejected batch of two ops whose first op_id is an op
\* already committed to the pushed workspace.
C15_Witness ==
    /\ resp.kind = "push"
    /\ Len(resp.results) = 2
    /\ \A i \in 1..2 : ~resp.results[i].success
    /\ \E r \in RowsWithOpId(changeLog, resp.results[1].opId) :
          r.workspace_id = resp.workspace
    /\ resp.results[2].opId # resp.results[1].opId

\* The response of a push of zero ops: no results, and nothing thrown.
EmptyPushResponse(r) == r.kind = "push" /\ ~r.threw /\ Len(r.results) = 0

\* C16 (as stated): a push with zero ops changes no state (no counter
\* increment, no counter row created) and its response has empty results
\* and a server_version equal to the workspace's current counter value, 0
\* only when the workspace has no counter.
C16_EmptyPushReportsCounter ==
    /\ [](EmptyPushResponse(resp) => resp.serverVersion = CounterOf(resp.workspace))
    /\ [][\A w \in Workspaces :
             Push(w, <<>>) =>
                /\ EmptyPushResponse(resp')
                /\ UNCHANGED <<counter, changeLog, materialized, tombstones>>]_vars

----------------------------------------------------------------------------
(* Tombstone stamps *)

\* The delete ops committed for a key.
KeyDeletes(k) == {d \in KeyOps(k) : d.op = "delete"}

----------------------------------------------------------------------------
(* Counter and change-log *)

\* The greatest server_version among the rows of w, 0 when there is none.
MaxVersionIn(rows, w) ==
    IF VersionsOf(rows, w) = {} THEN 0 ELSE Max(VersionsOf(rows, w))

\* C18 (as stated): immediately after every committed push to w, in any
\* state reachable through push, updateCursor and GC, counter(w).value is
\* the maximum server_version among the change-log rows of w.
C18_Original ==
    [][\A w \in GcPushWorkspaces, op \in GcOps :
          (Push(w, <<op>>) /\ ~resp'.threw) =>
             CounterOf(w)' = MaxVersionIn(changeLog', w)]_vars

\* C18, amended: immediately after every committed push to w,
\* counter(w).value is the maximum server_version ever committed to w, and
\* it is the maximum among the change-log rows of w whenever the push
\* inserted a row.
C18_CounterIsMaxCommitted ==
    [][\A w \in GcPushWorkspaces, op \in GcOps :
          (Push(w, <<op>>) /\ ~resp'.threw) =>
             /\ CounterOf(w)' = MaxVersionIn(committed', w)
             /\ changeLog' # changeLog =>
                   CounterOf(w)' = MaxVersionIn(changeLog', w)]_vars

\* C18 witness: the last push to resp.workspace was a committed
\* retransmission that found the workspace's change-log emptied by GC: the
\* counter is above every row that is left.
C18_Witness ==
    /\ resp.kind = "push"
    /\ PushAllSucceeded
    /\ Len(resp.results) = 1
    /\ resp.serverVersion = CounterOf(resp.workspace)
    /\ VersionsOf(committed, resp.workspace) # {}
    /\ VersionsOf(changeLog, resp.workspace) = {}
    /\ \E r \in RowsWithOpId(changeLog, resp.results[1].opId) :
          r.workspace_id # resp.workspace

----------------------------------------------------------------------------
(* Pull paging *)

\* The change_log rows a pull request asks for: the workspace's rows above
\* the cursor, within the table filter when one is given.
Requested(r) ==
    {x \in changeLog :
        /\ x.workspace_id = r.workspace
        /\ x.server_version > r.cursor
        /\ (r.tables # {} => x.table_name \in r.tables)}

RECURSIVE PullPages(_, _, _, _, _)
\* The changes of repeated pulls, concatenated: pull from the cursor, then
\* from the returned next_cursor, until has_more is false.
PullPages(log, w, cursor, limit, tables) ==
    LET out == PullResponse(log, w, cursor, limit, tables)
    IN IF out.hasMore
       THEN out.changes \o PullPages(log, w, out.nextCursor, limit, tables)
       ELSE out.changes

----------------------------------------------------------------------------
(* Garbage collection leaves no eligible row *)

\* The row is below every device cursor of the workspace, of which there
\* is at least one (without cursors the minimum is read as 0).
BelowMinCursor(row, w) ==
    LET versions == {c.last_seen_version : c \in {x \in cursors : x.workspace_id = w}}
    IN /\ versions # {}
       /\ \A v \in versions : row.server_version < v

\* No row of w in rows is both below the minimum cursor and older than
\* the retention period r, as seen when the call was made.
NoneEligibleLeft(rows, w, r) ==
    \A row \in rows :
        ~(/\ row.workspace_id = w
          /\ BelowMinCursor(row, w)
          /\ row.created_at < now - r)

\* C21: after gcChangeLog(w, R) no change-log row of w is left with
\* server_version < minCursor(w) and created_at < now - R, whether the
\* eligible rows fit in one delete batch or not; after gcTombstones(w, R)
\* the same holds of the tombstones of w.
C21_GcLeavesNoEligibleRow ==
    [][\A w \in Workspaces, r \in Retentions :
          /\ GcChangeLog(w, r) => NoneEligibleLeft(changeLog', w, r)
          /\ GcTombstones(w, r) => NoneEligibleLeft(tombstones', w, r)]_vars

\* A gcChangeLog call has returned, more rows than one delete batch takes
\* are gone from the change log, and the tombstone of the workspace has
\* been collected too.
C21_Witness ==
    /\ resp.kind = "gcChangeLog"
    /\ Cardinality(committed \ changeLog) > BATCH_SIZE
    /\ \E row \in materialized : row.deleted = 1
    /\ tombstones = {}

----------------------------------------------------------------------------
(* Default workspace *)

\* The memberships of user u in workspaces that are not soft-deleted.
LiveMembershipsOf(u) ==
    {m \in workspaceMembers :
        /\ m.user_id = u
        /\ \E w \in workspaces : w.id = m.workspace_id /\ w.deleted = 0}

\* The workspaces user u's active pointer names (none when it is null).
ActivePointer(u) ==
    {x.active_workspace_id : x \in {y \in users : y.id = u}} \ {SqlNull}

\* The workspaces of the memberships of u that no other live membership
\* of u predates.
OldestLive(u) ==
    {m.workspace_id : m \in
        {x \in LiveMembershipsOf(u) :
            \A y \in LiveMembershipsOf(u) : x.created_at <= y.created_at}}

\* C22: getOrCreateDefaultWorkspace(u) returns (a) the workspace u's active
\* pointer names when that is a non-deleted workspace u belongs to, else
\* (b) u's oldest membership in a non-deleted workspace, and (c) creates a
\* workspace "My Workspace" owned by u alone only when u has no such
\* membership; a call that follows a call for the same user returns the
\* same workspace.
C22_DefaultWorkspacePreference ==
    [][\A u \in {x.id : x \in users} :
          GetOrCreateDefaultWorkspace(u) =>
            LET returned == wsResp'.workspaceId
                liveIds == {m.workspace_id : m \in LiveMembershipsOf(u)}
            IN /\ IF ActivePointer(u) \cap liveIds # {}
                  THEN /\ returned \in ActivePointer(u)
                       /\ workspaces' = workspaces
                  ELSE IF liveIds # {}
                  THEN /\ returned \in OldestLive(u)
                       /\ workspaces' = workspaces
                  ELSE /\ \E w \in workspaces' \ workspaces :
                             /\ workspaces' = workspaces \cup {w}
                             /\ w.id = returned
                             /\ w.name = "My Workspace"
                             /\ w.deleted = 0
                       /\ \A m \in workspaceMembers' :
                             m.workspace_id = returned
                               => m.user_id = u /\ m.role = "owner"
                       /\ \E m \in workspaceMembers' : m.workspace_id = returned
               /\ (/\ wsResp.kind = "getOrCreateDefaultWorkspace"
                   /\ wsResp.userId = u)
                    => returned = wsResp.workspaceId]_vars

\* C23: when getOrCreateDefaultWorkspace(u) returns workspace w and u's
\* active pointer was missing or stale before the call (null, naming a
\* soft-deleted workspace, or naming a workspace u does not belong to),
\* the pointer names w afterwards.
C23_DefaultWorkspaceRepairsPointer ==
    [][\A u \in {x.id : x \in users} :
          (/\ GetOrCreateDefaultWorkspace(u)
           /\ ActivePointer(u) \cap {m.workspace_id : m \in LiveMembershipsOf(u)} = {})
            => \A x \in users' :
                  x.id = u => x.active_workspace_id = wsResp'.workspaceId]_vars

----------------------------------------------------------------------------
(* Role and membership checks of the workspace store *)

\* The roles user u holds in workspace w (at most one row by the unique
\* index; empty for a non-member).
RolesIn(u, w) ==
    {m.role : m \in {x \in workspaceMembers : x.user_id = u /\ x.workspace_id = w}}

IsDeleted(w) == \E x \in workspaces : x.id = w /\ x.deleted = 1

\* C24: setActiveWorkspace(u, w) succeeds, and makes w the active workspace
\* of u, exactly when u has a membership in w, whatever its role, and w is
\* not soft-deleted; otherwise it fails with the not-a-member error and
\* leaves every active pointer as it was.
C24_SetActiveRequiresLiveMembership ==
    [][\A u \in {x.id : x \in users}, w \in {x.id : x \in workspaces} :
          SetActiveWorkspace(u, w) =>
            IF RolesIn(u, w) # {} /\ ~IsDeleted(w)
            THEN /\ ~wsResp'.threw
                 /\ \A x \in users' : x.id = u => x.active_workspace_id = w
            ELSE /\ wsResp'.threw
                 /\ wsResp'.error = "Forbidden: not a member of this workspace"
                 /\ users' = users]_vars

\* A member's call for a soft-deleted workspace has just been refused
\* while that member has another workspace active.
C24_Witness ==
    /\ wsResp.kind = "setActiveWorkspace"
    /\ wsResp.threw
    /\ RolesIn(wsResp.userId, wsResp.workspaceId) # {}
    /\ IsDeleted(wsResp.workspaceId)
    /\ ActivePointer(wsResp.userId) # {}
    /\ \E x \in users : /\ x.active_workspace_id # SqlNull
                        /\ "viewer" \in RolesIn(x.id, x.active_workspace_id)

\* workspaces' is workspaces with, at most, the name and description of
\* the live workspace w replaced.
OnlyMetadataOf(w, name, description) ==
    workspaces' = {IF x.id = w /\ x.deleted = 0
                   THEN [x EXCEPT !.name = name, !.description = description]
                   ELSE x : x \in workspaces}

\* C25: updateWorkspace changes the name and description of a workspace,
\* and nothing else, when the caller is its owner or editor, and
\* removeWorkspace soft-deletes it when the caller is its owner; a call by
\* a viewer, by an editor (for remove) or by a non-member fails with the
\* role error and leaves workspaces, memberships and users unchanged.
C25_RoleEnforcement ==
    [][\A u \in {x.id : x \in users}, w \in {x.id : x \in workspaces} :
          /\ UpdateWorkspace(u, w, "R", SqlNull) =>
               IF RolesIn(u, w) \cap {"owner", "editor"} # {}
               THEN /\ ~wsResp'.threw
                    /\ OnlyMetadataOf(w, "R", SqlNull)
                    /\ UNCHANGED <<users, workspaceMembers>>
               ELSE /\ wsResp'.threw
                    /\ wsResp'.error = "Forbidden: insufficient workspace role"
                    /\ UNCHANGED <<users, workspaces, workspaceMembers>>
          /\ RemoveWorkspace(u, w) =>
               IF "owner" \in RolesIn(u, w)
               THEN /\ ~wsResp'.threw
                    /\ \A x \in workspaces' : x.id = w => x.deleted = 1
               ELSE /\ wsResp'.threw
                    /\ wsResp'.error = "Forbidden: only owner can remove workspace"
                    /\ UNCHANGED <<users, workspaces, workspaceMembers>>]_vars

\* An editor's removeWorkspace has just been refused for a workspace whose
\* metadata an earlier updateWorkspace replaced, while a viewer exists.
C25_Witness ==
    /\ wsResp.kind = "removeWorkspace"
    /\ wsResp.threw
    /\ RolesIn(wsResp.userId, wsResp.workspaceId) = {"editor"}
    /\ \E x \in workspaces : x.id = wsResp.workspaceId /\ x.name = "R" /\ x.deleted = 0
    /\ \E m \in workspaceMembers : m.role = "viewer"

----------------------------------------------------------------------------
(* Concurrent member upserts *)

\* The users that stand for an identity: the rows with that e-mail
\* address, or the rows made for that provider id (the owner of its
\* account and every row without e-mail and without account).
UsersOfEmail(email) == {u.id : u \in {x \in users : x.email = email}}

OrphanUsers ==
    {u.id : u \in {x \in users :
        x.email = SqlNull /\ ~\E a \in authAccounts : a.user_id = x.id}}

\* C26: once every upsertMember call for one identity and workspace has
\* returned, whatever the interleaving, one user row exists for the
\* identity, no user row is left without account and e-mail, and the
\* users of the identity hold one membership row in the workspace, with
\* the role of one of the calls.
C26_UpsertMemberConflictSafe ==
    (\A c \in UpsertCallers : memberCalls[c].pc = "idle") =>
        /\ Cardinality(UsersOfEmail("a@x.io")) <= 1
        /\ OrphanUsers = {}
        /\ \A w \in {x.id : x \in workspaces} :
              /\ Cardinality({m \in workspaceMembers :
                    m.workspace_id = w /\ m.user_id \in UsersOfEmail("a@x.io")}) <= 1
              /\ \A m \in workspaceMembers :
                    m.workspace_id = w /\ m.role # "owner"
                      => m.role \in {UpsertRole[c] : c \in UpsertCallers}

----------------------------------------------------------------------------
(* Workspace lifecycle *)

\* C27: a workspace with deleted = 1 is not listed by listUserWorkspaces,
\* not returned by getOrCreateDefaultWorkspace, not made active by
\* setActiveWorkspace and not changed by updateWorkspace; restoreWorkspace
\* clears deleted and deleted_at, leaves the memberships and the other
\* workspaces as they were, and listUserWorkspaces lists every non-deleted
\* workspace the user belongs to, restored ones included.
C27_SoftDeletedLifecycle ==
    [][/\ \A u \in {x.id : x \in users} :
            /\ ListUserWorkspaces(u) =>
                 /\ {r.id : r \in wsResp'.rows}
                      = {m.workspace_id : m \in LiveMembershipsOf(u)}
                 /\ \A r \in wsResp'.rows : RolesIn(u, r.id) = {r.role}
            /\ GetOrCreateDefaultWorkspace(u) =>
                 \E w \in workspaces' : w.id = wsResp'.workspaceId /\ w.deleted = 0
            /\ \A w \in {x.id : x \in workspaces} :
                 /\ (SetActiveWorkspace(u, w) /\ IsDeleted(w)) =>
                      wsResp'.threw /\ users' = users
                 /\ (UpdateWorkspace(u, w, "R", SqlNull) /\ IsDeleted(w)) =>
                      workspaces' = workspaces
       /\ \A w \in {x.id : x \in workspaces} :
            RestoreWorkspace(w) =>
              /\ workspaces' = {IF x.id = w
                                THEN [x EXCEPT !.deleted = 0, !.deleted_at = SqlNullInt]
                                ELSE x : x \in workspaces}
              /\ UNCHANGED <<workspaceMembers, users>>]_vars

\* A user's list shows two workspaces still named "My Workspace": the
\* second default workspace is only made while the first is soft-deleted,
\* so the first has been restored since.
C27_Witness ==
    /\ wsResp.kind = "listUserWorkspaces"
    /\ Cardinality(wsResp.rows) = 2
    /\ \A r \in wsResp.rows : r.name = "My Workspace"

----------------------------------------------------------------------------
(* Storage start-up decision *)

\* How the last getSqliteDb call was configured, read off its inputs: a
\* flag is set by 1, true or yes in any case with blanks around it.
FlagSet(value) == value \in {"1", "true", "yes", " YES "}
CallTestMode == db.env.NODE_ENV = "test" \/ FlagSet(db.env.VITEST)
CallAllows == FlagSet(db.env.OR3_SQLITE_ALLOW_IN_MEMORY)
CallStrict == FlagSet(db.env.OR3_SQLITE_STRICT)
CallPath ==
    IF db.optionsPath # Undefined THEN db.optionsPath ELSE db.env.OR3_SQLITE_DB_PATH
CallNoPath == CallPath \in {Undefined, ""}
CallInMemory == CallPath \in {Undefined, ":memory:"}

\* The last call opened the store or failed doing so (it did not find an
\* instance already open).
OpeningCall == db.kind = "getSqliteDb" /\ (db.threw \/ db.opened)

\* C28 as stated: opening fails when no path is configured outside test
\* mode without ALLOW_IN_MEMORY, and when STRICT is set and the path is
\* in-memory; it succeeds with one warning when non-test, in-memory and
\* allowed, and succeeds silently in every other case.
C28_Original ==
    OpeningCall =>
        IF \/ CallNoPath /\ ~CallTestMode /\ ~CallAllows
           \/ CallStrict /\ CallInMemory
        THEN db.threw
        ELSE IF ~CallTestMode /\ CallInMemory /\ CallAllows
        THEN ~db.threw /\ db.warnings = 1
        ELSE ~db.threw /\ db.warnings = 0

\* C28 amended: opening also fails when, outside test mode and without
\* ALLOW_IN_MEMORY, the path ':memory:' was configured explicitly.
C28_StartupDecision ==
    OpeningCall =>
        IF \/ CallNoPath /\ ~CallTestMode /\ ~CallAllows
           \/ CallStrict /\ CallInMemory
           \/ ~CallTestMode /\ CallInMemory /\ ~CallAllows
        THEN db.threw /\ ~db.instance /\ db.warnings = 0
        ELSE IF ~CallTestMode /\ CallInMemory /\ CallAllows
        THEN ~db.threw /\ db.instance /\ db.warnings = 1
        ELSE ~db.threw /\ db.instance /\ db.warnings = 0

\* The store has just been opened in memory outside test mode, allowed by
\* a flag written ' YES ', with one warning.
C28_Witness ==
    /\ OpeningCall
    /\ db.opened
    /\ db.warnings = 1
    /\ db.env.NODE_ENV = "production"
    /\ db.env.OR3_SQLITE_ALLOW_IN_MEMORY = " YES "
    /\ db.path = ":memory:"

----------------------------------------------------------------------------
(* Invite state machine *)

TerminalInviteStatuses == {"accepted", "revoked", "expired"}

\* The step is a consumeInvite call that accepted the invite id.
AcceptedBy(id) ==
    /\ inviteResp' = InviteReturn("consumeInvite", inviteResp'.workspaceId, id,
                                  TRUE, "")
    /\ \E w \in {x.id : x \in workspaces}, u \in {x.id : x \in users},
          h \in InviteTokens : ConsumeInvite(w, "A@X.io", h, u)

InviteStep ==
    /\ \A i \in invites : \E j \in invites' : j.id = i.id
    /\ \A j \in invites' :
          LET old == {i \in invites : i.id = j.id}
          IN IF old = {}
             THEN j.status = "pending"
             ELSE \A i \in old :
                    i.status # j.status =>
                       /\ i.status = "pending"
                       /\ j.status \in TerminalInviteStatuses
                       /\ j.status = "accepted" => AcceptedBy(j.id)
    /\ \A w \in {x.id : x \in workspaces}, i \in invites :
          (i.status # "pending" /\ RevokeInvite(w, i.id)) =>
             UNCHANGED <<invites, users, workspaceMembers>>

\* C29: an invite starts pending and its status only moves from pending to
\* accepted, revoked or expired; it becomes accepted only in a step that is
\* a successful consumeInvite of that invite; revokeInvite on an invite
\* that is not pending changes nothing; an accepted, revoked or expired
\* invite keeps its status in every step.
C29_InviteStateMachine == [][InviteStep]_vars

\* An accepted invite on which a revokeInvite has just been a no-op, next to
\* an invite that expired.
C29_Witness ==
    /\ inviteResp.kind = "revokeInvite"
    /\ ~inviteResp.ok
    /\ \E i \in invites : i.id = inviteResp.inviteId /\ i.status = "accepted"
    /\ \E i \in invites : i.status = "expired"

----------------------------------------------------------------------------
(* Duplicate op_ids inside one batch *)

\* The batches whose op_ids are, position by position, those of the results.
BatchesOf(results) ==
    {ops \in DupBatches :
        /\ Len(ops) = Len(results)
        /\ \A k \in 1..Len(ops) : ops[k].opId = results[k].opId}

\* The position of the first occurrence of the op_id at position k.
FirstOccurrence(ops, k) == Min({j \in 1..k : ops[j].opId = ops[k].opId})

RECURSIVE FirstOccurrences(_, _)
\* The batch without the later occurrences of an op_id.
FirstOccurrences(ops, k) ==
    IF k > Len(ops) THEN <<>>
    ELSE IF FirstOccurrence(ops, k) = k
         THEN <<ops[k]>> \o FirstOccurrences(ops, k + 1)
         ELSE FirstOccurrences(ops, k + 1)

\* What a push of ops into workspace w has to answer and to leave behind.
DupPushEffect(w, ops) ==
    LET base == IF \E c \in counter : c.workspace_id = w
                THEN (CHOOSE c \in counter : c.workspace_id = w).value ELSE 0
        logged == {r.op_id : r \in changeLog}
        fresh == {k \in 1..Len(ops) : ops[k].opId \notin logged}
        rank(k) == Cardinality({ops[j].opId : j \in {x \in fresh : x <= k}})
        once == RunTx(counter, changeLog, materialized, tombstones, w,
                      FirstOccurrences(ops, 1), now)
    IN /\ ~resp'.threw
       /\ Len(resp'.results) = Len(ops)
       /\ \A k \in fresh :
             /\ resp'.results[k] =
                   [opId |-> ops[k].opId, success |-> TRUE,
                    serverVersion |-> base + rank(FirstOccurrence(ops, k))]
             /\ FirstOccurrence(ops, k) = k =>
                   \E r \in changeLog' \ changeLog :
                      /\ r.op_id = ops[k].opId
                      /\ r.workspace_id = w
                      /\ r.server_version = base + rank(k)
                      /\ r.table_name = ops[k].tableName
                      /\ r.pk = ops[k].pk
                      /\ r.op = ops[k].operation
                      /\ r.payload_json = PayloadJson(ops[k])
                      /\ r.clock = ops[k].clock
                      /\ r.hlc = ops[k].hlc
                      /\ r.device_id = ops[k].deviceId
       /\ Cardinality(changeLog' \ changeLog) =
             Cardinality({ops[k].opId : k \in fresh})
       /\ changeLog \subseteq changeLog'
       /\ materialized' = once.mat
       /\ tombstones' = once.tomb

DupStep ==
    \A w \in DupWorkspaces :
       resp'.kind = "push" =>
          \A ops \in BatchesOf(resp'.results) :
             Push(w, ops) => DupPushEffect(w, ops)

\* C30: in a push whose batch reaches the transaction, the i-th distinct new
\* op_id, in the order of first occurrence, gets server_version base + i
\* and one change-log row written from its first occurrence; every later op
\* with that op_id is answered success with the same server_version; and
\* the change log, the materialized rows and the tombstones end as they
\* would had the batch held the first occurrences only, whatever the table,
\* pk, operation, payload and stamp of the later ones.
C30_DuplicatesInBatch == [][DupStep]_vars

\* A push answered <<o1 -> v, o2 -> v + 1, o1 -> v>> whose third op would, on
\* its own, have deleted the row that the first one wrote.
C30_Witness ==
    /\ resp.kind = "push"
    /\ ~resp.threw
    /\ Len(resp.results) = 3
    /\ resp.results[1].opId = "o1"
    /\ resp.results[2].opId = "o2"
    /\ resp.results[3].opId = "o1"
    /\ resp.results[1].success /\ resp.results[3].success
    /\ resp.results[3].serverVersion = resp.results[1].serverVersion
    /\ resp.results[2].serverVersion = resp.results[1].serverVersion + 1
    /\ \E r \in changeLog : r.op_id = "o1" /\ r.op = "put" /\ r.table_name = "threads"
    /\ \E r \in changeLog : r.op_id = "o2" /\ r.table_name = "messages"
    /\ tombstones = {}
    /\ \E m \in materialized : m.id = "t1" /\ m.deleted = 0

----------------------------------------------------------------------------
(* Losing ops leave the row alone *)

\* (clock, hlc) of a is strictly greater than (clock, hlc) of b.
StampAbove(aClock, aHlc, bClock, bHlc) ==
    \/ aClock > bClock
    \/ aClock = bClock /\ StrGreater(aHlc, bHlc)

RowsOfKey(mat, w, op) ==
    {r \in mat : /\ r.workspace_id = w
                 /\ r.table = SYNCED_TABLE_MAP[op.tableName]
                 /\ r.id = op.pk}

LosingStep ==
    \A w \in LwwWorkspaces, op \in RowOps :
       (/\ op.opId \notin {r.op_id : r \in changeLog}
        /\ \E e \in RowsOfKey(materialized, w, op) :
              ~StampAbove(op.clock, op.hlc, e.clock, e.hlc)
        /\ Push(w, <<op>>))
       => /\ materialized' = materialized
          /\ \E r \in changeLog' \ changeLog : r.op_id = op.opId

\* C31: a new put or delete whose (clock, hlc) is not strictly greater than
\* that of the materialized row of its key is logged and leaves the row as
\* it was, in every column; a losing put does not clear the deleted flag.
C31_LosingOpLeavesRow == [][LosingStep]_vars

\* A row deleted at time 0 by a delete with clock 2, after which a put with
\* clock 1 and a payload was pushed at time 1 from another device.
C31_Witness ==
    /\ now = 1
    /\ \E e \in materialized :
          /\ e.deleted = 1 /\ e.clock = 2 /\ e.updated_at = 0
          /\ e.device_id = "dA" /\ e.data_json = <<"{", "}">>
    /\ \E r \in changeLog :
          /\ r.op = "put" /\ r.clock = 1 /\ r.created_at = 1
          /\ r.device_id = "dB" /\ r.payload_json # NullJson
    /\ resp.kind = "push" /\ ~resp.threw

----------------------------------------------------------------------------
(* One tombstone per key, at the greatest (clock, server_version) *)

\* (clock, server_version) of a is at least that of b.
TombstoneStampAtLeast(a, b) ==
    \/ a.clock > b.clock
    \/ a.clock = b.clock /\ a.server_version >= b.server_version

\* C32: with pushes only, a key has a tombstone row exactly when a delete
\* op was accepted for it, whether or not that delete won on the
\* materialized row; there is at most one such row, and its (clock,
\* server_version) is that of an accepted delete of the key and is the
\* lexicographic maximum over all of them.
C32_TombstoneIsMaxDelete ==
    \A k \in PushedKeys :
       /\ Cardinality(KeyTombstones(k)) <= 1
       /\ KeyDeletes(k) = {} => KeyTombstones(k) = {}
       /\ \A d \in KeyDeletes(k) :
             \E t \in KeyTombstones(k) : TombstoneStampAtLeast(t, d)
       /\ \A t \in KeyTombstones(k) :
             \E d \in KeyDeletes(k) :
                t.clock = d.clock /\ t.server_version = d.server_version

\* Two deletes of one key, the one with the greatest clock committed
\* first, and a live row: the last delete lost on the materialized row to a
\* put and lost on the tombstone to the first delete.
C32_Witness ==
    \E k \in PushedKeys :
       /\ Cardinality(KeyDeletes(k)) = 2
       /\ \E t \in KeyTombstones(k), d \in KeyDeletes(k) :
             d.clock < t.clock /\ d.server_version > t.server_version
       /\ \E row \in KeyRows(k) : row.deleted = 0

----------------------------------------------------------------------------
(* What GC may delete *)

CursorsOf(w) == {c \in cursors : c.workspace_id = w}

\* Row may be deleted by a GC of workspace w with the given retention: it
\* is a row of w, below every cursor of w, of which there is at least one,
\* and older than the retention window.
GcMayDelete(row, w, retentionSeconds) ==
    /\ row.workspace_id = w
    /\ CursorsOf(w) # {}
    /\ \A c \in CursorsOf(w) : row.server_version < c.last_seen_version
    /\ row.created_at < now - retentionSeconds

GcFrameStep ==
    \A w \in GcWorkspaces, r \in Retentions :
       /\ GcChangeLog(w, r) =>
             /\ changeLog' \subseteq changeLog
             /\ \A row \in changeLog \ changeLog' : GcMayDelete(row, w, r)
             /\ UNCHANGED <<counter, cursors, materialized, tombstones>>
       /\ GcTombstones(w, r) =>
             /\ tombstones' \subseteq tombstones
             /\ \A row \in tombstones \ tombstones' : GcMayDelete(row, w, r)
             /\ UNCHANGED <<counter, cursors, materialized, changeLog>>

\* C33: gcChangeLog and gcTombstones of workspace w only delete rows, and
\* only rows of w whose server_version is strictly below every device
\* cursor of w (none when w has no cursor) and whose created_at is strictly
\* before now - retention_seconds; each leaves the other table, the
\* counters, the cursors and the materialized rows as they were.
C33_GcDeletesOnlyEligibleRows == [][GcFrameStep]_vars

\* A gcChangeLog of wsA has deleted a row of wsA while an equally old row
\* of wsB with a version below the cursors of wsA is still in the log.
C33_Witness ==
    /\ resp.kind = "gcChangeLog"
    /\ \E d \in committed \ changeLog : d.workspace_id = "wsA"
    /\ \E r \in changeLog :
          /\ r.workspace_id = "wsB"
          /\ r.created_at < now
          /\ \A c \in CursorsOf("wsA") : r.server_version < c.last_seen_version
    /\ counter # {} /\ materialized # {}

----------------------------------------------------------------------------
(* Push is all-or-nothing *)

\* The batch has an op that a statement of the transaction rejects.
HasFailingStatement(ops) ==
    \E i \in 1..Len(ops) :
       /\ ops[i].pk = SqlNull
       /\ ops[i].opId \notin {r.op_id : r \in changeLog}

\* The counter of the workspace is the number of its change-log rows, their
\* versions are 1..counter, and every row comes from an op that no
\* statement rejects.
NothingPartial ==
    /\ \A c \in counter :
          {r.server_version : r \in {x \in changeLog : x.workspace_id = c.workspace_id}}
             = 1..c.value
    /\ \A r \in changeLog :
          /\ r.pk # SqlNull
          /\ \E c \in counter : c.workspace_id = r.workspace_id
    /\ \A m \in materialized :
          \E r \in changeLog : r.pk = m.id /\ r.workspace_id = m.workspace_id
    /\ \A t \in tombstones :
          \E r \in changeLog : r.pk = t.pk /\ r.op = "delete"

AtomicStep ==
    /\ \A ops \in AtomicBatches :
          Push("wsA", ops) =>
             (resp'.threw <=> HasFailingStatement(ops))
    /\ (resp'.kind = "push" /\ resp'.threw) =>
          UNCHANGED <<counter, changeLog, materialized, tombstones>>
    /\ \A c \in 0..MaxCounter, l \in 1..MaxLimit :
          Pull("wsA", c, l, {}) =>
             \A i \in 1..Len(resp'.out.changes) : resp'.out.changes[i].pk # SqlNull

\* C34: a push in which a statement of the transaction fails raises an
\* error and leaves the counter, the change log, the materialized rows and
\* the tombstones as they were before the call; no later push or pull
\* sees a counter ahead of its change-log rows or a row of a failed batch.
C34_PushAllOrNothing == []NothingPartial /\ [][AtomicStep]_vars

\* A push has failed after an earlier push committed one row.
C34_Witness ==
    /\ resp.kind = "push"
    /\ resp.threw
    /\ Cardinality(changeLog) = 1
    /\ counter = {[workspace_id |-> "wsA", value |-> 1]}

----------------------------------------------------------------------------
(* Success results and the log of the pushed workspace *)

\* The result names a row of the workspace the push went to.
RefersToOwnLog(result, w, serverVersion) ==
    /\ 1 <= result.serverVersion
    /\ result.serverVersion <= serverVersion
    /\ \E r \in changeLog :
          /\ r.workspace_id = w
          /\ r.server_version = result.serverVersion
          /\ r.op_id = result.opId

SuccessResults ==
    IF resp.kind = "push" /\ ~resp.threw
    THEN {resp.results[i] : i \in {k \in 1..Len(resp.results) : resp.results[k].success}}
    ELSE {}

\* C35 (as stated): every success result of a push to workspace w has a
\* server_version between 1 and the response's server_version and names a
\* change-log row of w with its op_id, whatever workspace the op_id was
\* first committed under.
C35_Original ==
    \A result \in SuccessResults :
       RefersToOwnLog(result, resp.workspace, resp.serverVersion)

\* C35, amended: a success result whose op_id was not committed under
\* another workspace refers to the pushed workspace's own log; a success
\* result whose op_id is in the change log under another workspace carries
\* the server_version of that row, and the pushed workspace has no row for
\* the op_id.
C35_SuccessRefersToCommittedRow ==
    \A result \in SuccessResults :
       \E r \in changeLog :
          /\ r.op_id = result.opId
          /\ r.server_version = result.serverVersion
          /\ r.workspace_id = resp.workspace =>
                RefersToOwnLog(result, resp.workspace, resp.serverVersion)
          /\ r.workspace_id # resp.workspace =>
                ~\E q \in changeLog : /\ q.workspace_id = resp.workspace
                                      /\ q.op_id = result.opId

\* A push of two ops into wsB: one new, answered with a version of wsB,
\* one committed before under wsA, answered with the version it has there,
\* which is above the counter of wsB.
C35_Witness ==
    /\ resp.kind = "push" /\ ~resp.threw /\ resp.workspace = "wsB"
    /\ \E a, b \in SuccessResults :
          /\ RefersToOwnLog(a, "wsB", resp.serverVersion)
          /\ b.serverVersion > resp.serverVersion
          /\ \E r \in changeLog : /\ r.workspace_id = "wsA"
                                  /\ r.op_id = b.opId
                                  /\ r.server_version = b.serverVersion

----------------------------------------------------------------------------
(* Workspace store calls in flight together *)

\* No call of the store is between two of its statements.
WsQuiescent == \A c \in Callers : WsCallFree(c)

\* C36: whenever the setActiveWorkspace and removeWorkspace calls that
\* were interleaved statement by statement have all returned or thrown, no
\* user's active_workspace_id names a soft-deleted workspace.
C36_NoPointerToDeletedWorkspace ==
    WsQuiescent =>
        \A u \in users :
            \/ u.active_workspace_id = SqlNull
            \/ \E w \in workspaces :
                  w.id = u.active_workspace_id /\ w.deleted = 0

\* The getOrCreateDefaultWorkspace calls of user u that have returned.
DefaultReturns(u) ==
    {wsCalls[c].out : c \in {d \in Callers :
        /\ wsCalls[d].pc = "done"
        /\ wsCalls[d].out.kind = "getOrCreateDefaultWorkspace"
        /\ wsCalls[d].out.userId = u}}

\* C37: however the statements of concurrent getOrCreateDefaultWorkspace
\* calls of one user (who starts with no membership) are interleaved, the
\* user owns at most one workspace and the calls that have returned all
\* returned the same workspace id.
C37_OneDefaultWorkspace ==
    \A u \in users :
        /\ Cardinality({w \in workspaces : w.owner_user_id = u.id}) <= 1
        /\ Cardinality({r.workspaceId : r \in DefaultReturns(u.id)}) <= 1

----------------------------------------------------------------------------
(* Pull makes progress *)

RECURSIVE PullsUntilDone(_, _, _, _, _, _)
\* The number of pulls a client makes that starts at the cursor and pulls
\* again from each next_cursor while has_more is true; 0 when it is not
\* done after fuel pulls.
PullsUntilDone(log, w, cursor, limit, tables, fuel) ==
    IF fuel = 0 THEN 0
    ELSE LET out == PullResponse(log, w, cursor, limit, tables)
         IN IF ~out.hasMore THEN 1
            ELSE LET rest == PullsUntilDone(log, w, out.nextCursor, limit,
                                            tables, fuel - 1)
                 IN IF rest = 0 THEN 0 ELSE rest + 1

\* The rows of the log a pull of w from the cursor asks for.
RowsAbove(log, w, cursor, tables) ==
    {x \in log : /\ x.workspace_id = w
                 /\ x.server_version > cursor
                 /\ (tables # {} => x.table_name \in tables)}

\* C38 (as stated): for every limit >= 0, a pull that returns has_more =
\* true returns a next_cursor strictly greater than the request cursor.
C38_Original ==
    (resp.kind = "pull" /\ resp.limit >= 0 /\ resp.out.hasMore)
        => resp.out.nextCursor > resp.cursor

\* C38 (amended): for every cursor >= 0, every limit >= 1 and every table
\* filter, a pull that returns has_more = true returns a next_cursor
\* strictly greater than the request cursor, and on an unchanged
\* change-log a client that keeps pulling from next_cursor while has_more
\* is true reaches has_more = false within one pull more than the number
\* of rows it asked for.
C38_PullProgress ==
    /\ (resp.kind = "pull" /\ resp.limit >= 1 /\ resp.out.hasMore)
          => resp.out.nextCursor > resp.cursor
    /\ \A w \in Workspaces, c \in 0..MaxCounter, L \in 1..MaxLimit,
          t \in {{}, {"threads"}} :
          LET n == Cardinality(RowsAbove(changeLog, w, c, t))
          IN PullsUntilDone(changeLog, w, c, L, t, n + 1) \in 1..(n + 1)

\* C38 witness: a pull with limit 1 from cursor 1 that returns version 2
\* with has_more true because of version 3; the client that goes on from
\* next_cursor is done with its next pull.
C38_Witness ==
    /\ resp.kind = "pull"
    /\ resp.limit = 1
    /\ resp.cursor = 1
    /\ resp.tables = {}
    /\ resp.out.hasMore
    /\ resp.out.nextCursor = 2
    /\ PullsUntilDone(changeLog, resp.workspace, 1, 1, {}, 3) = 2

----------------------------------------------------------------------------
(* Convergence of the materialized row *)

\* What an op is, apart from its op_id and the version it was given.
OpContent(r) ==
    [op |-> r.op, clock |-> r.clock, hlc |-> r.hlc, device_id |-> r.device_id,
     payload_json |-> r.payload_json]

\* The ops logged for threads/t1 in workspace w.
ConvContents(w) ==
    {OpContent(r) : r \in {x \in changeLog :
        x.workspace_id = w /\ x.table_name = "threads" /\ x.pk = "t1"}}

ConvRows(w) == KeyRows(<<w, "threads", "t1">>)

\* The op with the greatest (clock, hlc) is a put.
ConvWinnerIsPut(w) ==
    \E m \in ConvContents(w) :
        /\ m.op = "put"
        /\ \A q \in ConvContents(w) : q = m \/ StampGreater(m, q)

\* C39 (as stated): two workspaces that were pushed the same set of ops on
\* a key, in whatever order each, hold the same materialized row for it:
\* data_json, clock, hlc, device_id and deleted.
C39_Original ==
    ConvContents("wsA") = ConvContents("wsB") =>
        {[data_json |-> m.data_json, clock |-> m.clock, hlc |-> m.hlc,
          device_id |-> m.device_id, deleted |-> m.deleted] : m \in ConvRows("wsA")}
      = {[data_json |-> m.data_json, clock |-> m.clock, hlc |-> m.hlc,
          device_id |-> m.device_id, deleted |-> m.deleted] : m \in ConvRows("wsB")}

\* C39 (amended): two workspaces that were pushed the same set of ops on a
\* key, in whatever order each, hold a row for it with the same clock,
\* hlc, device_id and deleted, and with the same data_json when the op
\* with the greatest (clock, hlc) is a put.
C39_RowConverges ==
    ConvContents("wsA") = ConvContents("wsB") =>
        /\ {[clock |-> m.clock, hlc |-> m.hlc, device_id |-> m.device_id,
             deleted |-> m.deleted] : m \in ConvRows("wsA")}
         = {[clock |-> m.clock, hlc |-> m.hlc, device_id |-> m.device_id,
             deleted |-> m.deleted] : m \in ConvRows("wsB")}
        /\ ConvWinnerIsPut("wsA") =>
              {m.data_json : m \in ConvRows("wsA")}
                  = {m.data_json : m \in ConvRows("wsB")}

\* C39 witness: both workspaces hold the same three ops, pushed in
\* different orders, the greatest being a put.
C39_Witness ==
    /\ Cardinality(ConvContents("wsA")) = 3
    /\ ConvContents("wsA") = ConvContents("wsB")
    /\ ConvWinnerIsPut("wsA")
    /\ \E a \in changeLog, b \in changeLog :
          /\ a.workspace_id = "wsA" /\ b.workspace_id = "wsB"
          /\ OpContent(a) = OpContent(b)
          /\ a.server_version # b.server_version
    /\ \E m \in ConvRows("wsA") : m.deleted = 0 /\ m.clock = 2

----------------------------------------------------------------------------
(* The delete loop of gcChangeLog *)

\* The change-log rows a gcChangeLog of w with retention r may delete.
GcEligibleRows(w, r) == {row \in changeLog : GcMayDelete(row, w, r)}

\* The numbers of rows the DELETE statements of a loop over n eligible
\* rows report: full batches, then one short batch (possibly empty).
BatchesOver(n) ==
    [i \in 1..((n \div BATCH_SIZE) + 1) |->
        IF i <= n \div BATCH_SIZE THEN BATCH_SIZE ELSE n % BATCH_SIZE]

GcLoopStep ==
    \A w \in BulkWorkspaces, r \in Retentions :
        LET n == Cardinality(GcEligibleRows(w, r))
            run == GcChangeLogRun(changeLog, w, MinCursor(cursors, w), now - r, 0)
        IN /\ (/\ resp'.kind = "gcChangeLog"
               /\ "threw" \notin DOMAIN resp'
               /\ GcChangeLog(w, r)) =>
                /\ ~run.threw
                /\ run.deleted = BatchesOver(n)
                /\ \A i \in DOMAIN run.deleted :
                      /\ run.deleted[i] <= BATCH_SIZE
                      /\ run.deleted[i] < BATCH_SIZE <=> i = Len(run.deleted)
                /\ changeLog' = changeLog \ GcEligibleRows(w, r)
           /\ \A k \in GcFailAts :
                 (/\ resp'.kind = "gcChangeLog"
                  /\ "threw" \in DOMAIN resp'
                  /\ GcChangeLogFails(w, r, k)) =>
                    /\ k <= Len(BatchesOver(n))
                    /\ resp'.deleted = SubSeq(BatchesOver(n), 1, k - 1)
                    /\ changeLog' \subseteq changeLog
                    /\ changeLog \ changeLog' \subseteq GcEligibleRows(w, r)
                    /\ Cardinality(changeLog \ changeLog') = (k - 1) * BATCH_SIZE

\* C40: every gcChangeLog call ends after (eligible rows div 1000) + 1
\* DELETE statements: each deletes at most 1000 rows, every one but the
\* last deletes exactly 1000 and the last fewer, and together they delete
\* exactly the eligible rows; a call whose k-th statement fails leaves the
\* rows of the k - 1 earlier batches deleted and no other row touched.
C40_GcLoopTerminates == [][GcLoopStep]_vars

\* C40 witness: a gcChangeLog call over more than 1000 eligible rows whose
\* second DELETE failed: the 1000 rows of the first batch are gone, the
\* row left for the second batch is still there.
C40_Witness ==
    /\ resp.kind = "gcChangeLog"
    /\ "deleted" \in DOMAIN resp
    /\ resp.threw
    /\ resp.deleted = <<BATCH_SIZE>>
    /\ Cardinality(committed \ changeLog) = BATCH_SIZE
    /\ \E w \in BulkWorkspaces, r \in Retentions : GcEligibleRows(w, r) # {}

====
